---- MODULE Spec2Model ----
(***************************************************************************)
(* trio-serial: the portable stream facade (abstract.py), the POSIX        *)
(* backend (posix.py, linux.py) and the overlapped backend (windows.py),   *)
(* modelled as a state machine.  Code between two suspension points of a   *)
(* coroutine runs atomically under trio's cooperative scheduler, so each   *)
(* action is one such segment.                                             *)
(***************************************************************************)
EXTENDS Integers, Sequences, FiniteSets, TLC

\* ------------------------------------------------------------------ bounds
NTasks == 2      \* tasks that call the stream's I/O operations
MaxLen == 2      \* longest data given to send_all
MaxRx == 2       \* most bytes waiting in the OS input queue
MaxOpens == 2    \* OS resources (descriptors, handles) ever acquired

\* ------------------------------------------------------- program constants
DefaultReadSize == 4096     \* "max_bytes or 4096"
None == 0                   \* _fd / _py_serial when closed
Unspecified == -1           \* receive_some called without max_bytes (None)

Tasks == 1..NTasks
Fds == 1..MaxOpens

VARIABLES
    backend,                  \* "posix" | "linux" | "windows": the class in use
    cfg,                      \* constructor arguments (abstract.py __init__)
    _hangup_on_close,         \* PosixSerialStream._hangup_on_close
    _fd,                      \* PosixSerialStream._fd (None iff closed)
    _fd2,                     \* _fd of a second stream made for the same port
    _py_serial,               \* WindowsSerialStream._py_serial / _handle
    _read_buffer,             \* WindowsSerialStream._read_buffer (its length)
    _send_conflict_detector,  \* ConflictDetector._held of the send guard
    _recv_conflict_detector,  \* ConflictDetector._held of the receive guard
    tasks,                    \* per task: the coroutine frame of its call
    alive,                    \* FALSE once __del__ has run
    res,                      \* OS: per resource "free" | "open" | "closed"
    closeCalls,               \* OS: close calls received per resource
    lockedBy,                 \* OS: descriptor holding the exclusive flock
    osAttr,                   \* OS: terminal attributes of the device
    rxAvail,                  \* OS: bytes waiting in the input queue
    gone,                     \* OS: the device has gone (reads give EOF)
    ret,                      \* outcome of the call that returned in this step
    oscalls                   \* OS / scheduler calls issued in this step

vars == <<backend, cfg, _hangup_on_close, _fd, _py_serial, _read_buffer,
          _send_conflict_detector, _recv_conflict_detector, tasks, alive,
          res, closeCalls, lockedBy, osAttr, rxAvail, gone, ret, oscalls>>

\* ------------------------------------------------- configuration (abstract.py)
Parity == {"NONE", "EVEN", "ODD", "MARK", "SPACE"}
StopBits == {"ONE", "ONE_POINT_FIVE", "TWO"}

\* The constructor's defaults, abstract.py:94-100.
DefaultConfig ==
    [exclusive |-> FALSE, baudrate |-> 115200, bytesize |-> 8, parity |-> "NONE",
     stopbits |-> "ONE", xonxoff |-> FALSE, rtscts |-> FALSE]

\* Constructor arguments: the defaults and what departs from them -- a rate
\* only the Linux table has (500000), a rate no table has (250000), a byte
\* size termios has no constant for (9), stop bits that are no StopBits
\* member, stick parity, the lock and the flow controls.
Configs ==
    {[DefaultConfig EXCEPT !.baudrate = r, !.bytesize = z, !.parity = p, !.stopbits = s] :
        r \in {115200, 500000, 250000}, z \in {8, 9},
        p \in {"NONE", "ODD", "MARK", "SPACE"}, s \in {"ONE", "TWO", "NO_MEMBER"}}
    \cup {[DefaultConfig EXCEPT !.exclusive = TRUE, !.baudrate = r] :
             r \in {115200, 250000}}
    \cup {[DefaultConfig EXCEPT !.xonxoff = TRUE], [DefaultConfig EXCEPT !.rtscts = TRUE]}

\* ------------------------------------------------ platform capability sets
\* CMSPAR as the set of bits it holds: 0 on the generic backend.
CMSPAR(b) == IF b = "linux" THEN {"CMSPAR"} ELSE {}

\* hasattr(self, "BOTHER")
HasBOTHER(b) == b = "linux"
BOTHER == 4096              \* linux.py:36, 0o010000

\* Numeric value of the speed constant of a rate (linux.py's table; the
\* termios module's B<rate> constants have the same values).
BConst(rate) ==
    CASE rate = 9600 -> 13
      [] rate = 38400 -> 15
      [] rate = 115200 -> 4098
      [] rate = 500000 -> 4101
      [] OTHER -> 0

\* Rates r for which the termios module defines B<r>.
TermiosB == {9600, 38400, 115200}

\* Keys of BAUDRATE_CONSTANTS.
BAUDRATE_CONSTANTS(b) == IF b = "linux" THEN {9600, 38400, 115200, 500000} ELSE {}

\* -------------------------------------------------- terminal attributes
CSIZE == {"CSIZE0", "CSIZE1"}
CS(n) ==
    CASE n = 5 -> {}
      [] n = 6 -> {"CSIZE0"}
      [] n = 7 -> {"CSIZE1"}
      [] n = 8 -> {"CSIZE0", "CSIZE1"}
      [] OTHER -> {}      \* termios has no CS<n>: see ValidByteSize

\* A terminal in the usual cooked mode, as a freshly opened tty reports it.
CookedAttr ==
    [iflag |-> {"ICRNL", "IXON", "IXANY", "BRKINT"},
     oflag |-> {"OPOST", "ONLCR"},
     cflag |-> {"CREAD", "CSIZE0", "CSIZE1", "HUPCL"},
     lflag |-> {"ICANON", "ECHO", "ECHOE", "ECHOK", "ISIG", "IEXTEN", "ECHOCTL", "ECHOKE"},
     ispeed |-> 15, ospeed |-> 15, vmin |-> 1, vtime |-> 0, baud |-> 38400]

\* Baud-rate resolution, posix.py:289-305: <<speed constant, custom_baud>>.
\* (ResolveBaudEscapeFirst: BOTHER tried before the class's table.)
ResolveBaudEscapeFirst(b, rate) ==
    IF rate \in TermiosB THEN <<BConst(rate), FALSE>>
    ELSE IF HasBOTHER(b) THEN <<BOTHER, TRUE>>
    ELSE IF rate \in BAUDRATE_CONSTANTS(b) THEN <<BConst(rate), FALSE>>
    ELSE <<BConst(38400), TRUE>>
ResolveBaud(b, rate) ==
    IF rate \in TermiosB THEN <<BConst(rate), FALSE>>
    ELSE IF rate \in BAUDRATE_CONSTANTS(b) THEN <<BConst(rate), FALSE>>
    ELSE IF HasBOTHER(b) THEN <<BOTHER, TRUE>>
    ELSE <<BConst(38400), TRUE>>

\* hasattr(termios, f"CS{self._bytesize}"), posix.py:309-312.
\* (AnyByteSize: the same test left out.)
AnyByteSize(c) == TRUE
ValidByteSize(c) == c.bytesize \in {5, 6, 7, 8}

\* The stop-bits branch has a value it knows, posix.py:315-323.
ValidStopBits(c) == c.stopbits \in StopBits

\* The parity branch has a case for the value, posix.py:327-341.
\* (AnyParity: MARK and SPACE taken without looking at CMSPAR.)
AnyParity(b, c) == TRUE
ValidParity(b, c) ==
    \/ c.parity \in {"NONE", "EVEN", "ODD"}
    \/ c.parity \in {"MARK", "SPACE"} /\ CMSPAR(b) # {}

\* cflag after the parity branch, posix.py:327-339.
\* (ParityBitsStickKept: NONE, EVEN and ODD without their "& ~self.CMSPAR".)
ParityBitsStickKept(b, c, cflag) ==
    CASE c.parity = "NONE" -> cflag \ {"PARENB", "PARODD"}
      [] c.parity = "EVEN" -> (cflag \ {"PARODD"}) \cup {"PARENB"}
      [] c.parity = "ODD" -> cflag \cup {"PARENB", "PARODD"}
      [] c.parity = "MARK" -> cflag \cup {"PARENB", "PARODD"} \cup CMSPAR(b)
      [] c.parity = "SPACE" -> (cflag \cup {"PARENB"} \cup CMSPAR(b)) \ {"PARODD"}
\* (ParityBitsOred: the bits of the parity or-ed in, none cleared.)
ParityBitsOred(b, c, cflag) ==
    CASE c.parity = "NONE" -> cflag
      [] c.parity = "EVEN" -> cflag \cup {"PARENB"}
      [] c.parity = "ODD" -> cflag \cup {"PARENB", "PARODD"}
      [] c.parity = "MARK" -> cflag \cup {"PARENB", "PARODD"} \cup CMSPAR(b)
      [] c.parity = "SPACE" -> cflag \cup {"PARENB"} \cup CMSPAR(b)
ParityBits(b, c, cflag) ==
    CASE c.parity = "NONE" -> cflag \ ({"PARENB", "PARODD"} \cup CMSPAR(b))
      [] c.parity = "EVEN" -> (cflag \ ({"PARODD"} \cup CMSPAR(b))) \cup {"PARENB"}
      [] c.parity = "ODD" -> (cflag \ CMSPAR(b)) \cup {"PARENB", "PARODD"}
      [] c.parity = "MARK" -> cflag \cup {"PARENB", "PARODD"} \cup CMSPAR(b)
      [] c.parity = "SPACE" -> (cflag \cup {"PARENB"} \cup CMSPAR(b)) \ {"PARODD"}

\* cflag after the hangup-on-close branch, posix.py:367-371.
\* (HupclKept: the bit left as it was read.)
HupclKept(hup, cflag) == cflag
Hupcl(hup, cflag) == IF hup THEN cflag \cup {"HUPCL"} ELSE cflag \ {"HUPCL"}

\* The input flags the pass clears, posix.py:281-287 and 326.
\* (ClearedIflagEarly: those of 281-287 only.)
ClearedIflagEarly == {"INLCR", "IGNCR", "ICRNL", "IGNBRK", "IUCLC", "PARMRK"}
ClearedIflag == {"INLCR", "IGNCR", "ICRNL", "IGNBRK", "IUCLC", "PARMRK", "INPCK", "ISTRIP"}

\* iflag after the XON/XOFF branch, posix.py:343-353 (termios has IXANY).
\* (XonXoffInverted: the two arms exchanged.)
XonXoffInverted(c, iflag) ==
    IF c.xonxoff THEN iflag \ {"IXON", "IXOFF", "IXANY"} ELSE iflag \cup {"IXON", "IXOFF"}
XonXoff(c, iflag) ==
    IF c.xonxoff THEN iflag \cup {"IXON", "IXOFF"} ELSE iflag \ {"IXON", "IXOFF", "IXANY"}

\* The new attribute list computed by _reconfigure_port from the attributes
\* read from the OS, posix.py:261-377.  (baud is the line rate the kernel
\* keeps beside the list; the list does not hold it.)
Encode(b, c, hup, orig) ==
    LET speed == ResolveBaud(b, c.baudrate)[1]
        lflag == orig.lflag \ {"ICANON", "ECHO", "ECHOE", "ECHOK", "ECHONL", "ISIG",
                               "IEXTEN", "ECHOCTL", "ECHOKE"}
        oflag == orig.oflag \ {"OPOST", "ONLCR", "OCRNL"}
        iflag1 == orig.iflag \ ClearedIflag
        iflag == XonXoff(c, iflag1)
        cflag1 == ((orig.cflag \cup {"CLOCAL", "CREAD"}) \ CSIZE) \cup CS(c.bytesize)
        cflag2 == IF c.stopbits = "ONE" THEN cflag1 \ {"CSTOPB"} ELSE cflag1 \cup {"CSTOPB"}
        cflag3 == ParityBits(b, c, cflag2)
        cflag4 == IF c.rtscts THEN cflag3 \cup {"CRTSCTS"} ELSE cflag3 \ {"CRTSCTS"}
        cflag == Hupcl(hup, cflag4)
    IN  [iflag |-> iflag, oflag |-> oflag, cflag |-> cflag, lflag |-> lflag,
         ispeed |-> speed, ospeed |-> speed, vmin |-> 0, vtime |-> 0,
         baud |-> orig.baud]

\* orig_attr as the comparison at posix.py:379 sees it: cc is the very list
\* held by orig_attr, so the two stores at 374-375 have changed it too.
OrigAsCompared(orig) == [orig EXCEPT !.vmin = 0, !.vtime = 0]

\* Line rate a speed constant stands for (inverse of BConst).
RateOf(speed) ==
    CASE speed = 13 -> 9600
      [] speed = 15 -> 38400
      [] speed = 4098 -> 115200
      [] speed = 4101 -> 500000
      [] OTHER -> 0

\* What the OS holds after tcsetattr(fd, TCSANOW, new): with the generic
\* escape constant as speed the kernel keeps its line rate.
TcSetAttr(new) ==
    [new EXCEPT !.baud = IF new.ospeed = BOTHER THEN new.baud ELSE RateOf(new.ospeed)]

Call(name, fd, arg) == [call |-> name, fd |-> fd, arg |-> arg]

FailPoints == {"none", "flock", "tcgetattr", "tcsetattr", "ioctl"}

\* _set_special_baudrate(fd): <<outcome, calls, attributes afterwards>>.
\* posix.py:386-390 (generic), linux.py:72-90.
\* (SetSpecialBaudrateUnset: buf[9] and buf[10] left as TCGETS2 gave them.)
SetSpecialBaudrateUnset(b, c, fd, attr, fail) ==
    IF b # "linux"
    THEN [outcome |-> "NotImplementedError", calls |-> <<>>, attr |-> attr]
    ELSE [outcome |-> "ok",
          calls |-> <<Call("ioctl(TCGETS2)", fd, <<>>),
                      Call("ioctl(TCSETS2)", fd, <<attr.baud>>)>>,
          attr |-> [attr EXCEPT !.ispeed = BOTHER, !.ospeed = BOTHER]]
SetSpecialBaudrate(b, c, fd, attr, fail) ==
    IF b # "linux"
    THEN [outcome |-> "NotImplementedError", calls |-> <<>>, attr |-> attr]
    ELSE IF fail = "ioctl"
    THEN [outcome |-> "ValueError(custom baud rate)",
          calls |-> <<Call("ioctl(TCGETS2)", fd, <<>>)>>, attr |-> attr]
    ELSE [outcome |-> "ok",
          calls |-> <<Call("ioctl(TCGETS2)", fd, <<>>),
                      Call("ioctl(TCSETS2)", fd, <<c.baudrate>>)>>,
          attr |-> [attr EXCEPT !.ispeed = BOTHER, !.ospeed = BOTHER,
                                !.baud = c.baudrate]]

\* _reconfigure_port(force_update), posix.py:237-384, on descriptor fd (None
\* when closed) with the OS holding attributes orig; `fail` names the OS
\* call that raises, if any.  Result: outcome, calls issued, attributes left.
ReconfigurePort(b, c, hup, fd, orig, force, fail) ==
    LET lock == Call(IF c.exclusive THEN "flock(LOCK_EX|LOCK_NB)" ELSE "flock(LOCK_UN)",
                     fd, <<>>)
        get == Call("tcgetattr", fd, <<>>)
        new == Encode(b, c, hup, orig)
        write == force \/ new # OrigAsCompared(orig)
        set == IF write THEN <<Call("tcsetattr", fd, <<new>>)>> ELSE <<>>
        after == IF write THEN TcSetAttr(new) ELSE orig
        custom == ResolveBaud(b, c.baudrate)[2]
        special == SetSpecialBaudrate(b, c, fd, after, fail)
    IN  IF fd = None THEN [outcome |-> "ok", calls |-> <<>>, attr |-> orig]
        ELSE IF fail = "flock"
        THEN [outcome |-> IF c.exclusive THEN "IOError(lock)" ELSE "OSError",
              calls |-> <<lock>>, attr |-> orig]
        ELSE IF fail = "tcgetattr"
        THEN [outcome |-> "termios.error", calls |-> <<lock, get>>, attr |-> orig]
        ELSE IF ~ValidByteSize(c)
        THEN [outcome |-> "ValueError(char len)", calls |-> <<lock, get>>, attr |-> orig]
        ELSE IF ~ValidStopBits(c)
        THEN [outcome |-> "ValueError(stop bits)", calls |-> <<lock, get>>, attr |-> orig]
        ELSE IF ~ValidParity(b, c)
        THEN [outcome |-> "ValueError(parity)", calls |-> <<lock, get>>, attr |-> orig]
        ELSE IF write /\ fail = "tcsetattr"
        THEN [outcome |-> "termios.error", calls |-> <<lock, get>> \o set, attr |-> orig]
        ELSE IF custom
        THEN [outcome |-> special.outcome, calls |-> <<lock, get>> \o set \o special.calls,
              attr |-> special.attr]
        ELSE [outcome |-> "ok", calls |-> <<lock, get>> \o set, attr |-> after]

\* ---------------------------------------------------------------- frames
\* The frame of a task that is in no call of the stream.
IdleFrame ==
    [op |-> "none", pc |-> "idle", wake |-> "none", data |-> <<>>, total_sent |-> 0,
     max_bytes |-> 0, wfd |-> None, n |-> 0, calls |-> <<>>]

\* An adapter call (or checkpoint) made by an operation, with what it was
\* given and what it returned.
Adapter(name, arg, result) == [call |-> name, arg |-> arg, ret |-> result]

NoRet ==
    [op |-> "none", outcome |-> "none", value |-> 0, data |-> <<>>,
     max_bytes |-> 0, calls |-> <<>>]

\* The record of a lifecycle call returning.
Ret(op, outcome) == [NoRet EXCEPT !.op = op, !.outcome = outcome]

\* The record of an I/O call returning from frame fr.
TaskRet(fr, outcome, value) ==
    [op |-> fr.op, outcome |-> outcome, value |-> value, data |-> fr.data,
     max_bytes |-> fr.max_bytes, calls |-> fr.calls]

InFlight(t) == tasks[t].pc # "idle"

\* Callers are interchangeable (no code of the stream looks at which task
\* calls it): a new call is made by the lowest-numbered task that is in none.
Caller(t) == ~InFlight(t) /\ \A u \in Tasks : u < t => InFlight(u)
SendOps == {"send_all", "wait_send_all_might_not_block"}
RecvOps == {"receive_some"}

\* Inputs of send_all: data[i] = i, so that a byte sent twice or skipped shows.
Datas == {[i \in 1..n |-> i] : n \in 0..MaxLen}
MaxBytesArgs == {Unspecified, 0, 1, MaxRx}

\* ------------------------------------------------------------ OS effects
Min(a, b) == IF a < b THEN a ELSE b

CallsNamed(calls, names) == {i \in DOMAIN calls : calls[i].call \in names}

\* Resources acquired, released, and announced as closing by a call list.
Acquired(calls) == {calls[i].fd : i \in CallsNamed(calls, {"os.open", "serial.Serial"})}
NCloses(calls, f) ==
    Cardinality({i \in CallsNamed(calls, {"os.close", "py_serial.close"}) : calls[i].fd = f})
Notified(calls) == {calls[i].fd : i \in CallsNamed(calls, {"notify_closing"})}
Aborted(calls) == {calls[i].fd : i \in CallsNamed(calls, {"py_serial.close"})}

\* The resource table after the calls: a close releases, an open acquires.
ResAfter(calls) ==
    [f \in Fds |-> IF NCloses(calls, f) > 0 THEN "closed"
                   ELSE IF f \in Acquired(calls) THEN "open" ELSE res[f]]

CloseCallsAfter(calls) ==
    [f \in Fds |-> Min(closeCalls[f] + NCloses(calls, f), MaxOpens + 1)]

\* Next resource the OS hands out (each acquisition is a new resource).
NextFd == Cardinality({f \in Fds : res[f] # "free"}) + 1

\* Frames after the calls: trio.lowlevel.notify_closing(fd) reschedules every
\* task waiting on fd with ClosedResourceError; closing a handle aborts the
\* overlapped operations pending on it, which trio reports the same way.
\* (TasksAsleep: a notification that wakes nobody.)
TasksAsleep(calls) == tasks
TasksAfter(calls) ==
    [t \in Tasks |->
        IF tasks[t].wake = "suspended" /\ tasks[t].pc # "checkpoint"
           /\ tasks[t].wfd \in (Notified(calls) \cup Aborted(calls))
        THEN [tasks[t] EXCEPT !.wake = "closed"] ELSE tasks[t]]

\* ------------------------------------------------------------- lifecycle
\* PosixSerialStream._close(notify_closing) on a stream whose _fd is fd:
\* the calls it issues.  _fd is None afterwards in either case.
\* (_close_unreleased: the same without the os.close of posix.py:111.)
_close_unreleased(fd, notify_closing) ==
    IF fd = None \/ ~notify_closing THEN <<>> ELSE <<Call("notify_closing", fd, <<>>)>>
\* (_close_then_notify: the same with the two calls in the other order.)
_close_then_notify(fd, notify_closing) ==
    IF fd = None THEN <<>>
    ELSE <<Call("os.close", fd, <<>>)>>
         \o (IF notify_closing THEN <<Call("notify_closing", fd, <<>>)>> ELSE <<>>)
_close(fd, notify_closing) ==
    IF fd = None THEN <<>>
    ELSE (IF notify_closing THEN <<Call("notify_closing", fd, <<>>)>> ELSE <<>>)
         \o <<Call("os.close", fd, <<>>)>>

\* WindowsSerialStream._close(notify_closing) with _py_serial = h.
_close_win(h, notify_closing) ==
    IF h = None THEN <<>> ELSE <<Call("py_serial.close", h, <<>>)>>

IsPosix == backend \in {"posix", "linux"}

TypeOK ==
    /\ backend \in {"posix", "linux", "windows"}
    /\ _fd \in {None} \cup Fds
    /\ _py_serial \in {None} \cup Fds
    /\ _send_conflict_detector \in BOOLEAN
    /\ _recv_conflict_detector \in BOOLEAN
    /\ rxAvail \in 0..MaxRx

InitCommon ==
    /\ cfg = DefaultConfig
    /\ _hangup_on_close = TRUE
    /\ _fd = None
    /\ _fd2 = None
    /\ _py_serial = None
    /\ _read_buffer = 0
    /\ _send_conflict_detector = FALSE
    /\ _recv_conflict_detector = FALSE
    /\ tasks = [t \in Tasks |-> IdleFrame]
    /\ alive = TRUE
    /\ res = [f \in Fds |-> "free"]
    /\ closeCalls = [f \in Fds |-> 0]
    /\ lockedBy = None
    /\ osAttr = CookedAttr
    /\ rxAvail = 0
    /\ gone = FALSE
    /\ ret = NoRet
    /\ oscalls = <<>>

Init == backend = "posix" /\ InitCommon

\* flock(fd, LOCK_EX | LOCK_NB) finds the lock held through another open
\* file description, posix.py:253.  (LockNeverBusy: a lock that any number
\* of descriptions can take.)
LockNeverBusy(fd) == FALSE
LockBusy(fd) == lockedBy \notin {None, fd}

\* The holder of the exclusive lock after the calls: flock takes it when it
\* is free, LOCK_UN and the close of the holder give it up.
LockAfter(calls) ==
    LET taken == {calls[i].fd : i \in CallsNamed(calls, {"flock(LOCK_EX|LOCK_NB)"})}
        dropped == {calls[i].fd : i \in CallsNamed(calls, {"flock(LOCK_UN)"})}
        held == IF lockedBy # None THEN lockedBy
                ELSE IF taken # {} THEN CHOOSE f \in taken : TRUE ELSE None
    IN  IF held = None \/ held \in dropped THEN None
        ELSE IF NCloses(calls, held) > 0 THEN None ELSE held

\* What every step does with the calls it issued.
Issue(calls) ==
    /\ oscalls' = calls
    /\ lockedBy' = LockAfter(calls)
    /\ res' = ResAfter(calls)
    /\ closeCalls' = CloseCallsAfter(calls)
    /\ rxAvail' = IF \E f \in Fds : NCloses(calls, f) > 0 THEN 0 ELSE rxAvail

\* `if self._fd is not None: raise`, posix.py:81-82.
\* (NeverOpened: the same test left out.)
NeverOpened(fd) == FALSE
AlreadyOpened(fd) == fd # None

\* PosixSerialStream.aopen, posix.py:77-89.
aopen ==
    /\ alive /\ IsPosix
    /\ UNCHANGED <<backend, _fd2, cfg, _hangup_on_close, _py_serial, _read_buffer,
                   _send_conflict_detector, _recv_conflict_detector, alive, gone>>
    /\ IF AlreadyOpened(_fd)
       THEN /\ ret' = Ret("aopen", "Exception(Already opened)")
            /\ Issue(<<>>)
            /\ UNCHANGED <<_fd, tasks, osAttr>>
       ELSE /\ NextFd <= MaxOpens
            /\ \E fail \in FailPoints \cup {"os.open"} :
                 /\ gone => fail = "os.open"
                 /\ (cfg.exclusive /\ LockBusy(NextFd) /\ fail # "os.open")
                       => fail = "flock"
                 /\ IF fail = "os.open"
                    THEN /\ ret' = Ret("aopen", "OSError")
                         /\ Issue(<<Call("os.open", None, <<>>)>>)
                         /\ UNCHANGED <<_fd, tasks, osAttr>>
                    ELSE LET fd == NextFd
                             r == ReconfigurePort(backend, cfg, _hangup_on_close, fd,
                                                  osAttr, TRUE, fail)
                             calls == <<Call("os.open", fd, <<>>)>> \o r.calls
                                      \o (IF r.outcome = "ok" THEN <<>> ELSE _close(fd, FALSE))
                         IN  /\ _fd' = IF r.outcome = "ok" THEN fd ELSE None
                             /\ osAttr' = r.attr
                             /\ ret' = Ret("aopen", r.outcome)
                             /\ Issue(calls)
                             /\ tasks' = TasksAfter(calls)

\* How trio.lowlevel.notify_closing(fd) can end: it returns, or it raises
\* having woken the waiters or not.  posix.py:105-111 closes in each case.
NotifyEnds == {"returns", "raises", "raises, waiters woken"}

\* PosixSerialStream.aclose, posix.py:71-75: self._close(True).
aclose ==
    /\ alive /\ IsPosix
    /\ \E notify \in NotifyEnds :
         LET calls == _close(_fd, TRUE)
         IN  /\ _fd = None => notify = "returns"
             /\ _fd' = None
             /\ Issue(calls)
             /\ tasks' = IF notify = "raises" THEN tasks ELSE TasksAfter(calls)
             /\ ret' = Ret("aclose", IF notify = "returns" THEN "ok"
                                     ELSE "Error(notify_closing)")
    /\ UNCHANGED <<backend, _fd2, cfg, _hangup_on_close, _py_serial, _read_buffer,
                   _send_conflict_detector, _recv_conflict_detector, alive, osAttr, gone>>

\* AbstractSerialStream.__del__, abstract.py:142-146: self._close().  The
\* destructor runs only when nothing refers to the stream any more, so no
\* task is inside one of its calls and none follows.
__del__ ==
    /\ alive
    /\ \A t \in Tasks : ~InFlight(t)
    /\ alive' = FALSE
    /\ LET calls == IF IsPosix THEN _close(_fd, FALSE) ELSE _close_win(_py_serial, FALSE)
       IN  /\ _fd' = None
           /\ _py_serial' = None
           /\ Issue(calls)
           /\ tasks' = TasksAfter(calls)
    /\ ret' = Ret("__del__", "ok")
    /\ UNCHANGED <<backend, _fd2, cfg, _hangup_on_close, _read_buffer,
                   _send_conflict_detector, _recv_conflict_detector, osAttr, gone>>

\* WindowsSerialStream.aopen, windows.py:34-57.  serial.Serial(...) either
\* raises, holding nothing, or holds a new handle; `fail` names the call
\* that raises, if any.
aopen_win ==
    /\ alive /\ ~IsPosix
    /\ UNCHANGED <<backend, _fd2, cfg, _hangup_on_close, _fd, _read_buffer,
                   _send_conflict_detector, _recv_conflict_detector, alive, gone, osAttr>>
    /\ IF _py_serial # None
       THEN /\ ret' = Ret("aopen", "ok")
            /\ Issue(<<>>)
            /\ UNCHANGED <<_py_serial, tasks>>
       ELSE /\ NextFd <= MaxOpens
            /\ \E fail \in {"none", "serial.Serial", "register_with_iocp"} :
                 /\ gone => fail = "serial.Serial"
                 /\ IF fail = "serial.Serial"
                    THEN /\ ret' = Ret("aopen", "SerialException")
                         /\ Issue(<<Call("serial.Serial", None, <<>>)>>)
                         /\ UNCHANGED <<_py_serial, tasks>>
                    ELSE LET h == NextFd
                             calls == <<Call("serial.Serial", h,
                                             <<cfg.baudrate, cfg.bytesize, 2>>),
                                        Call("SetCommTimeouts", h, <<0, 0, 0>>),
                                        Call("register_with_iocp", h, <<>>)>>
                         IN  /\ _py_serial' = h
                             /\ ret' = Ret("aopen", IF fail = "none" THEN "ok"
                                                    ELSE "OSError")
                             /\ Issue(calls)
                             /\ tasks' = TasksAfter(calls)

\* WindowsSerialStream.aclose, windows.py:28-32: self._close(True).
aclose_win ==
    /\ alive /\ ~IsPosix
    /\ LET calls == _close_win(_py_serial, TRUE)
       IN  /\ _py_serial' = None
           /\ Issue(calls)
           /\ tasks' = TasksAfter(calls)
    /\ ret' = Ret("aclose", "ok")
    /\ UNCHANGED <<backend, _fd2, cfg, _hangup_on_close, _fd, _read_buffer,
                   _send_conflict_detector, _recv_conflict_detector, alive, osAttr, gone>>

\* ------------------------------------- synchronous operations (posix.py)
\* An operation that makes one OS call on self.fd, posix.py:113-132 and
\* 162-187, 208-235: ClosedResourceError from the fd property when closed;
\* otherwise the call, which returns `value` or raises.
SyncCall(op, name, arg, values) ==
    /\ alive /\ IsPosix
    /\ IF _fd = None
       THEN /\ ret' = Ret(op, "ClosedResourceError")
            /\ oscalls' = <<>>
       ELSE /\ oscalls' = <<Call(name, _fd, arg)>>
            /\ \/ \E value \in values : ret' = [Ret(op, "ok") EXCEPT !.value = value]
               \/ ret' = Ret(op, "OSError")
    /\ UNCHANGED <<backend, _fd2, cfg, _hangup_on_close, _fd, _py_serial, _read_buffer,
                   _send_conflict_detector, _recv_conflict_detector, tasks, alive,
                   res, closeCalls, lockedBy, osAttr, gone>>

\* discard_input, posix.py:113-117: termios.tcflush(self.fd, TCIFLUSH).
discard_input ==
    /\ SyncCall("discard_input", "tcflush(TCIFLUSH)", <<>>, {0})
    /\ rxAvail' = IF ret'.outcome = "ok" THEN 0 ELSE rxAvail

\* discard_output, posix.py:119-123: termios.tcflush(self.fd, TCOFLUSH).
discard_output ==
    /\ SyncCall("discard_output", "tcflush(TCOFLUSH)", <<>>, {0})
    /\ UNCHANGED rxAvail

\* send_break(duration), posix.py:125-132, duration given in quarters of a
\* second: termios.tcsendbreak(self.fd, int(duration / 0.25)).
send_break(quarters) ==
    /\ SyncCall("send_break", "tcsendbreak", <<quarters>>, {0})
    /\ UNCHANGED rxAvail

\* get_cts and get_rts, posix.py:162-178 and 223-235: the bit of the modem
\* lines read with ioctl(TIOCMGET), whatever the lines are.
get_cts ==
    /\ SyncCall("get_cts", "ioctl(TIOCMGET)", <<>>, {0, 1})
    /\ UNCHANGED rxAvail

get_rts ==
    /\ SyncCall("get_rts", "ioctl(TIOCMGET)", <<>>, {0, 1})
    /\ UNCHANGED rxAvail

\* set_rts(value), posix.py:180-187 and 208-221: ioctl(TIOCMBIS or TIOCMBIC)
\* with BUF_RTS, the packed BIT_RTS = 0x004 (posix.py:33-34).
set_rts(value) ==
    /\ SyncCall("set_rts", IF value THEN "ioctl(TIOCMBIS)" ELSE "ioctl(TIOCMBIC)",
                <<4>>, {0})
    /\ UNCHANGED rxAvail

\* get_hangup, posix.py:189-196: return self._hangup_on_close.
get_hangup ==
    /\ alive /\ IsPosix
    /\ ret' = [Ret("get_hangup", "ok") EXCEPT !.value = IF _hangup_on_close THEN 1 ELSE 0]
    /\ oscalls' = <<>>
    /\ UNCHANGED <<backend, _fd2, cfg, _hangup_on_close, _fd, _py_serial, _read_buffer,
                   _send_conflict_detector, _recv_conflict_detector, tasks, alive,
                   res, closeCalls, lockedBy, osAttr, rxAvail, gone>>

\* set_hangup(value), posix.py:198-206: the value is stored, then
\* self._reconfigure_port() runs without force_update.
set_hangup(value) ==
    /\ alive /\ IsPosix
    /\ _hangup_on_close' = value
    /\ \E fail \in FailPoints :
         LET r == ReconfigurePort(backend, cfg, value, _fd, osAttr, FALSE, fail)
         IN  /\ _fd = None => fail = "none"
             /\ ret' = Ret("set_hangup", r.outcome)
             /\ oscalls' = r.calls
             /\ osAttr' = r.attr
    /\ UNCHANGED <<backend, _fd2, cfg, _fd, _py_serial, _read_buffer,
                   _send_conflict_detector, _recv_conflict_detector, tasks, alive,
                   res, closeCalls, lockedBy, rxAvail, gone>>

\* ----------------------------------- synchronous operations (windows.py)
\* discard_input and discard_output, windows.py:75-85: each is
\* self._py_serial.reset_input_buffer(), which empties the driver's input
\* queue; on a closed stream _py_serial is None and has no such method.
ResetInputBuffer(op) ==
    /\ alive /\ ~IsPosix
    /\ IF _py_serial = None
       THEN /\ ret' = Ret(op, "AttributeError")
            /\ oscalls' = <<>>
            /\ UNCHANGED rxAvail
       ELSE /\ ret' = Ret(op, "ok")
            /\ oscalls' = <<Call("reset_input_buffer", _py_serial, <<>>)>>
            /\ rxAvail' = 0
    /\ UNCHANGED <<backend, _fd2, cfg, _hangup_on_close, _fd, _py_serial, _read_buffer,
                   _send_conflict_detector, _recv_conflict_detector, tasks, alive,
                   res, closeCalls, lockedBy, osAttr, gone>>

discard_input_win == ResetInputBuffer("discard_input")

discard_output_win == ResetInputBuffer("discard_output")

\* ------------------------------------------------------ results of a step
\* What a segment of an I/O coroutine leaves: the call returned (or raised)
\* with an outcome, or it is suspended again in frame fr.
Returned(fr, outcome, value, calls) ==
    [fr |-> fr, returned |-> TRUE, outcome |-> outcome, value |-> value, calls |-> calls]
Suspended(fr, calls) ==
    [fr |-> fr, returned |-> FALSE, outcome |-> "none", value |-> 0, calls |-> calls]

Logged(fr, name, arg, result) ==
    [fr EXCEPT !.calls = Append(@, Adapter(name, arg, result))]

\* data[total_sent:], abstract.py:230.
\* (WholeData: the slice taken from the start instead.)
WholeData(fr) == fr.data
remaining(fr) == SubSeq(fr.data, fr.total_sent + 1, Len(fr.data))

\* max_bytes or 4096
ReadSize(max_bytes) ==
    IF max_bytes = Unspecified \/ max_bytes = 0 THEN DefaultReadSize ELSE max_bytes

\* ------------------------------------------------- POSIX adapter (posix.py)
\* _wait_writable, posix.py:146-150: self.fd raises when closed, else the
\* task suspends in trio.lowlevel.wait_writable(fd).
_wait_writable(fr) ==
    LET fr1 == Logged(fr, "_wait_writable", <<>>, 0)
    IN  IF _fd = None THEN Returned(fr1, "ClosedResourceError", 0, <<>>)
        ELSE Suspended([fr1 EXCEPT !.pc = "wait_writable", !.wake = "suspended",
                                   !.wfd = _fd],
                       <<Call("wait_writable", _fd, <<>>)>>)

\* _send, posix.py:134-144: os.write(self.fd, data) accepting k bytes.
\* Result: <<outcome, bytes written, calls>>.
\* (_send_reports_more: a count one above what was written.)
_send_reports_more(data, k) ==
    IF _fd = None THEN <<"ClosedResourceError", 0, <<>>>>
    ELSE IF gone THEN <<"OSError", 0, <<Call("os.write", _fd, <<data>>)>>>>
    ELSE <<"ok", k + 1, <<Call("os.write", _fd, <<data>>)>>>>
_send(data, k) ==
    IF _fd = None THEN <<"ClosedResourceError", 0, <<>>>>
    ELSE IF gone THEN <<"OSError", 0, <<Call("os.write", _fd, <<data>>)>>>>
    ELSE <<"ok", k, <<Call("os.write", _fd, <<data>>)>>>>

\* _recv up to its suspension, posix.py:159.
_recv(fr) ==
    LET fr1 == Logged(fr, "_recv", <<fr.max_bytes>>, -1)
    IN  IF _fd = None THEN Returned(fr1, "ClosedResourceError", 0, <<>>)
        ELSE Suspended([fr1 EXCEPT !.pc = "wait_readable", !.wake = "suspended",
                                   !.wfd = _fd],
                       <<Call("wait_readable", _fd, <<>>)>>)

\* _recv after the wait, posix.py:160: os.read(self.fd, max_bytes or 4096).
\* Result: <<outcome, bytes read, calls>>.
\* (_recv_read_eof_raises: the same, a read of zero bytes raising.)
_recv_read_eof_raises(max_bytes) ==
    IF _fd = None THEN <<"ClosedResourceError", 0, <<>>>>
    ELSE <<IF Min(ReadSize(max_bytes), rxAvail) = 0 THEN "OSError" ELSE "ok",
           Min(ReadSize(max_bytes), rxAvail),
           <<Call("os.read", _fd, <<ReadSize(max_bytes)>>)>>>>
_recv_read(max_bytes) ==
    IF _fd = None THEN <<"ClosedResourceError", 0, <<>>>>
    ELSE <<"ok", Min(ReadSize(max_bytes), rxAvail),
           <<Call("os.read", _fd, <<ReadSize(max_bytes)>>)>>>>

\* --------------------------------------- overlapped adapter (windows.py)
\* _wait_writable, windows.py:109-114: returns at once.
_wait_writable_win(fr) == Logged(fr, "_wait_writable", <<>>, 0)

\* _send, windows.py:96-107: the task suspends in write_overlapped.
_send_win(fr) ==
    LET fr1 == Logged(fr, "_send", <<remaining(fr)>>, -1)
    IN  IF _py_serial = None THEN Returned(fr1, "Error(handle is None)", 0, <<>>)
        ELSE Suspended([fr1 EXCEPT !.pc = "write_overlapped", !.wake = "suspended",
                                   !.wfd = _py_serial],
                       <<Call("write_overlapped", _py_serial, <<remaining(fr)>>)>>)

\* `if read_size != len(self._read_buffer)`, windows.py:129.
\* (ReallocatesAlways: a new buffer for every call.)
ReallocatesAlways(max_bytes, buffer) == TRUE
Reallocates(max_bytes, buffer) == ReadSize(max_bytes) # buffer

\* Length of _read_buffer once _recv has sized it, windows.py:128-130.
ReadBufferFor(max_bytes, buffer) ==
    IF ReadSize(max_bytes) # buffer THEN ReadSize(max_bytes) ELSE buffer

\* The allocation of windows.py:130, logged with the calls of the step.
Allocation(max_bytes, buffer) ==
    IF Reallocates(max_bytes, buffer)
    THEN <<Call("bytearray", None, <<ReadSize(max_bytes)>>)>> ELSE <<>>

\* _recv, windows.py:116-132, up to its suspension in readinto_overlapped.
_recv_win(fr) ==
    LET fr1 == Logged(fr, "_recv", <<fr.max_bytes>>, -1)
        buffer == ReadBufferFor(fr.max_bytes, _read_buffer)
    IN  IF _py_serial = None
        THEN Returned(fr1, "Error(handle is None)", 0, Allocation(fr.max_bytes, _read_buffer))
        ELSE Suspended([fr1 EXCEPT !.pc = "readinto_overlapped", !.wake = "suspended",
                                   !.wfd = _py_serial],
                       Allocation(fr.max_bytes, _read_buffer)
                       \o <<Call("readinto_overlapped", _py_serial, <<buffer>>)>>)

\* ------------------------------------------------- facade (abstract.py)
\* `with detector:` raises BusyResourceError iff the detector is held.
\* (NoConflict: a detector that never raises.)
NoConflict(held) == FALSE
Conflict(held) == held

\* The detector a direction's operations enter: receive_some the receive
\* guard (abstract.py:214), send_all and wait_send_all_might_not_block the
\* send guard (abstract.py:223, 238).
\* (OneGuard: one detector for both directions.  RecvGuardOnly: every
\* operation entering the receive guard.)
OneGuard(dir) == _send_conflict_detector \/ _recv_conflict_detector
RecvGuardOnly(dir) == _recv_conflict_detector
GuardOf(dir) ==
    IF dir = "send" THEN _send_conflict_detector ELSE _recv_conflict_detector

\* `if not data`, abstract.py:225.
\* (NeverEmpty: the same test left out.)
NeverEmpty(data) == FALSE
IsEmpty(data) == Len(data) = 0

Pre(calls, r) == [r EXCEPT !.calls = calls \o @]

SetLastRet(fr, result) ==
    [fr EXCEPT !.calls = [@ EXCEPT ![Len(@)] = [@ EXCEPT !.ret = result]]]

\* send_all's loop from its test, abstract.py:228-232, up to the next
\* suspension or the return.
SendLoop(fr) ==
    IF ~(fr.total_sent < Len(fr.data)) THEN Returned(fr, "ok", 0, <<>>)
    ELSE IF IsPosix THEN _wait_writable(fr)
    ELSE _send_win(_wait_writable_win(fr))

\* ConflictDetector.__exit__ runs when the `with` block is left, by return
\* or by exception (abstract.py:214, 223, 238).
\* (ExitOnReturn: the detector released on a normal return only.)
ExitOnReturn(r) == r.returned /\ r.outcome = "ok"
Exit(r) == r.returned

\* The step's effect on task t, whose call uses the guard of direction dir
\* and enters its `with` block in this step iff entering.
Apply(t, dir, entering, r) ==
    /\ tasks' = [tasks EXCEPT ![t] = IF r.returned THEN IdleFrame ELSE r.fr]
    /\ ret' = IF r.returned THEN TaskRet(r.fr, r.outcome, r.value) ELSE NoRet
    /\ oscalls' = r.calls
    /\ _send_conflict_detector' =
          IF dir # "send" THEN _send_conflict_detector
          ELSE IF Exit(r) THEN FALSE
          ELSE IF entering THEN TRUE ELSE _send_conflict_detector
    /\ _recv_conflict_detector' =
          IF dir # "recv" THEN _recv_conflict_detector
          ELSE IF Exit(r) THEN FALSE
          ELSE IF entering THEN TRUE ELSE _recv_conflict_detector

\* A call refused at entry: nothing but the caller's exception.
\* (RefuseReleases: the refused `with` running the detector's __exit__.)
RefuseReleases(t, fr) ==
    /\ ret' = TaskRet(fr, "BusyResourceError", 0)
    /\ oscalls' = <<>>
    /\ UNCHANGED tasks
    /\ _send_conflict_detector' = (_send_conflict_detector /\ fr.op \notin SendOps)
    /\ _recv_conflict_detector' = (_recv_conflict_detector /\ fr.op \notin RecvOps)
Refuse(t, fr) ==
    /\ ret' = TaskRet(fr, "BusyResourceError", 0)
    /\ oscalls' = <<>>
    /\ UNCHANGED <<tasks, _send_conflict_detector, _recv_conflict_detector>>

Dir(op) == IF op \in SendOps THEN "send" ELSE "recv"

\* send_all(data), abstract.py:217-232, up to its first suspension.
send_all(t, data) ==
    /\ alive /\ Caller(t)
    /\ LET fr == [IdleFrame EXCEPT !.op = "send_all", !.data = data]
       IN  IF Conflict(GuardOf("send")) THEN Refuse(t, fr)
           ELSE IF IsEmpty(data)
           THEN Apply(t, "send", TRUE,
                      Suspended([Logged(fr, "checkpoint", <<>>, 0) EXCEPT
                                    !.pc = "checkpoint", !.wake = "suspended"], <<>>))
           ELSE Apply(t, "send", TRUE, SendLoop(fr))
    /\ UNCHANGED <<backend, _fd2, cfg, _hangup_on_close, _fd, _py_serial, _read_buffer, alive,
                   res, closeCalls, lockedBy, osAttr, rxAvail, gone>>

\* wait_send_all_might_not_block, abstract.py:234-239, up to its suspension.
wait_send_all_might_not_block(t) ==
    /\ alive /\ Caller(t)
    /\ LET fr == [IdleFrame EXCEPT !.op = "wait_send_all_might_not_block"]
       IN  IF Conflict(GuardOf("send")) THEN Refuse(t, fr)
           ELSE Apply(t, "send", TRUE,
                      IF IsPosix THEN _wait_writable(fr)
                      ELSE Returned(_wait_writable_win(fr), "ok", 0, <<>>))
    /\ UNCHANGED <<backend, _fd2, cfg, _hangup_on_close, _fd, _py_serial, _read_buffer, alive,
                   res, closeCalls, lockedBy, osAttr, rxAvail, gone>>

\* receive_some(max_bytes), abstract.py:203-215, up to its suspension.
receive_some(t, max_bytes) ==
    /\ alive /\ Caller(t)
    /\ LET fr == [IdleFrame EXCEPT !.op = "receive_some", !.max_bytes = max_bytes]
       IN  IF Conflict(GuardOf("recv"))
           THEN Refuse(t, fr) /\ UNCHANGED _read_buffer
           ELSE /\ Apply(t, "recv", TRUE, IF IsPosix THEN _recv(fr) ELSE _recv_win(fr))
                /\ _read_buffer' = IF IsPosix THEN _read_buffer
                                   ELSE ReadBufferFor(max_bytes, _read_buffer)
    /\ UNCHANGED <<backend, _fd2, cfg, _hangup_on_close, _fd, _py_serial, alive,
                   res, closeCalls, lockedBy, osAttr, rxAvail, gone>>

\* ------------------------------------------------ scheduler and device
Quiet == ret' = NoRet /\ oscalls' = <<>>

\* The scheduler makes a suspended task runnable: a checkpoint always, a
\* wait for writability when the descriptor can take data, a wait for
\* readability when input (or the end of the device) is there.
Ready(t) ==
    /\ tasks[t].wake = "suspended"
    /\ \/ tasks[t].pc = "checkpoint"
       \/ /\ tasks[t].wfd # None /\ res[tasks[t].wfd] = "open"
          /\ \/ tasks[t].pc = "wait_writable"
             \/ tasks[t].pc = "wait_readable" /\ (rxAvail > 0 \/ gone)
    /\ tasks' = [tasks EXCEPT ![t].wake = "ok"]
    /\ Quiet
    /\ UNCHANGED <<backend, _fd2, cfg, _hangup_on_close, _fd, _py_serial, _read_buffer,
                   _send_conflict_detector, _recv_conflict_detector, alive,
                   res, closeCalls, lockedBy, osAttr, rxAvail, gone>>

\* An overlapped operation completes: a write with k bytes taken, a read
\* (no time-out is in force, windows.py:52-56) when the buffer is full; with
\* the device gone either fails.
Complete(t, k) ==
    /\ tasks[t].wake = "suspended"
    /\ tasks[t].pc \in {"write_overlapped", "readinto_overlapped"}
    /\ IF gone
       THEN /\ k = 1
            /\ tasks' = [tasks EXCEPT ![t].wake = "oserror"]
            /\ UNCHANGED rxAvail
       ELSE IF tasks[t].pc = "write_overlapped"
       THEN /\ k \in 1..Len(remaining(tasks[t]))
            /\ tasks' = [tasks EXCEPT ![t].wake = "ok", ![t].n = k]
            /\ UNCHANGED rxAvail
       ELSE /\ k = 1
            /\ rxAvail >= _read_buffer
            /\ tasks' = [tasks EXCEPT ![t].wake = "ok", ![t].n = _read_buffer]
            /\ rxAvail' = rxAvail - _read_buffer
    /\ Quiet
    /\ UNCHANGED <<backend, _fd2, cfg, _hangup_on_close, _fd, _py_serial, _read_buffer,
                   _send_conflict_detector, _recv_conflict_detector, alive,
                   res, closeCalls, lockedBy, osAttr, gone>>

\* An overlapped read completes with the time-out error (ERROR_TIMEOUT):
\* readinto_overlapped raises the OSError of the completion status.
CompleteTimeout(t) ==
    /\ tasks[t].wake = "suspended"
    /\ tasks[t].pc = "readinto_overlapped"
    /\ ~gone
    /\ tasks' = [tasks EXCEPT ![t].wake = "timeout"]
    /\ Quiet
    /\ UNCHANGED <<backend, _fd2, cfg, _hangup_on_close, _fd, _py_serial, _read_buffer,
                   _send_conflict_detector, _recv_conflict_detector, alive,
                   res, closeCalls, lockedBy, osAttr, rxAvail, gone>>

\* A suspended call is cancelled: Cancelled is raised at its await and
\* leaves through the `with` blocks.  (The raise reads nothing of the
\* stream, so it is taken in the same step as the cancellation.)
Cancel(t) ==
    /\ tasks[t].wake = "suspended"
    /\ Apply(t, Dir(tasks[t].op), FALSE, Returned(tasks[t], "Cancelled", 0, <<>>))
    /\ UNCHANGED <<backend, _fd2, cfg, _hangup_on_close, _fd, _py_serial, _read_buffer, alive,
                   res, closeCalls, lockedBy, osAttr, rxAvail, gone>>

\* What task t's coroutine does when it runs again, to its next suspension
\* or its return; k is the count the OS write reports.
ResumeStep(fr, k) ==
    CASE fr.wake = "closed" -> Returned(fr, "ClosedResourceError", 0, <<>>)
      [] fr.wake = "oserror" -> Returned(fr, "OSError", 0, <<>>)
      [] fr.wake = "timeout" -> Returned(fr, "OSError(timeout)", 0, <<>>)
      [] fr.wake = "ok" /\ fr.pc = "checkpoint" -> SendLoop(fr)
      [] fr.wake = "ok" /\ fr.pc = "wait_writable"
                        /\ fr.op = "wait_send_all_might_not_block" ->
            Returned(fr, "ok", 0, <<>>)
      [] fr.wake = "ok" /\ fr.pc = "wait_writable" /\ fr.op = "send_all" ->
            LET s == _send(remaining(fr), k)
                fr1 == Logged(fr, "_send", <<remaining(fr)>>, s[2])
            IN  IF s[1] = "ok"
                THEN Pre(s[3], SendLoop([fr1 EXCEPT !.total_sent = @ + s[2]]))
                ELSE Returned(fr1, s[1], 0, s[3])
      [] fr.wake = "ok" /\ fr.pc = "wait_readable" ->
            LET s == _recv_read(fr.max_bytes)
            IN  Returned(SetLastRet(fr, s[2]), s[1], s[2], s[3])
      [] fr.wake = "ok" /\ fr.pc = "write_overlapped" ->
            SendLoop([SetLastRet(fr, fr.n) EXCEPT !.total_sent = @ + fr.n])
      [] fr.wake = "ok" /\ fr.pc = "readinto_overlapped" ->
            Returned(SetLastRet(fr, Min(fr.n, _read_buffer)), "ok",
                     Min(fr.n, _read_buffer), <<>>)

Resume(t, k) ==
    /\ tasks[t].wake \notin {"none", "suspended"}
    /\ IF tasks[t].wake = "ok" /\ tasks[t].pc = "wait_writable"
          /\ tasks[t].op = "send_all"
       THEN k \in 1..Len(remaining(tasks[t]))
       ELSE k = 1
    /\ LET r == ResumeStep(tasks[t], k)
       IN  /\ Apply(t, Dir(tasks[t].op), FALSE, r)
           /\ rxAvail' = IF tasks[t].wake = "ok" /\ tasks[t].pc = "wait_readable"
                            /\ r.outcome = "ok"
                         THEN rxAvail - r.value ELSE rxAvail
    /\ UNCHANGED <<backend, _fd2, cfg, _hangup_on_close, _fd, _py_serial, _read_buffer, alive,
                   res, closeCalls, lockedBy, osAttr, gone>>

\* A byte arrives from the line.
DeviceInput ==
    /\ ~gone /\ rxAvail < MaxRx
    /\ \E f \in Fds : res[f] = "open"
    /\ rxAvail' = rxAvail + 1
    /\ Quiet
    /\ UNCHANGED <<backend, _fd2, cfg, _hangup_on_close, _fd, _py_serial, _read_buffer,
                   _send_conflict_detector, _recv_conflict_detector, tasks, alive,
                   res, closeCalls, lockedBy, osAttr, gone>>

\* The device goes away (unplugged): what it had queued is lost.
DeviceGone ==
    /\ ~gone
    /\ gone' = TRUE
    /\ rxAvail' = 0
    /\ Quiet
    /\ UNCHANGED <<backend, _fd2, cfg, _hangup_on_close, _fd, _py_serial, _read_buffer,
                   _send_conflict_detector, _recv_conflict_detector, tasks, alive,
                   res, closeCalls, lockedBy, osAttr>>

\* ------------------------------------------------------- specifications
Next ==
    \/ aopen
    \/ aclose
    \/ __del__
    \/ \E t \in Tasks, data \in Datas : send_all(t, data)
    \/ \E t \in Tasks : wait_send_all_might_not_block(t)
    \/ \E t \in Tasks, max_bytes \in MaxBytesArgs : receive_some(t, max_bytes)
    \/ \E t \in Tasks : Ready(t)
    \/ \E t \in Tasks : Cancel(t)
    \/ \E t \in Tasks, k \in 1..MaxLen : Resume(t, k)
    \/ DeviceInput
    \/ DeviceGone

\* The POSIX stream.
Spec == Init /\ [][Next]_vars

\* The POSIX stream under trio's scheduler, which runs every task it has
\* rescheduled.
SpecLive ==
    Init /\ [][Next]_vars /\ \A t \in Tasks : WF_vars(\E k \in 1..MaxLen : Resume(t, k))

InitWin == backend = "windows" /\ InitCommon

NextWin ==
    \/ aopen_win
    \/ aclose_win
    \/ __del__
    \/ discard_input_win
    \/ discard_output_win
    \/ \E t \in Tasks, data \in Datas : send_all(t, data)
    \/ \E t \in Tasks : wait_send_all_might_not_block(t)
    \/ \E t \in Tasks, max_bytes \in MaxBytesArgs : receive_some(t, max_bytes)
    \/ \E t \in Tasks : Ready(t)
    \/ \E t \in Tasks, k \in 1..MaxLen : Complete(t, k)
    \/ \E t \in Tasks : CompleteTimeout(t)
    \/ \E t \in Tasks : Cancel(t)
    \/ \E t \in Tasks, k \in 1..MaxLen : Resume(t, k)
    \/ DeviceInput
    \/ DeviceGone

\* The overlapped (Windows) stream.
SpecWin == InitWin /\ [][NextWin]_vars

\* Either stream.
NextAll ==
    \/ Next
    \/ aopen_win
    \/ aclose_win
    \/ discard_input_win
    \/ discard_output_win
    \/ \E t \in Tasks, k \in 1..MaxLen : Complete(t, k)
    \/ \E t \in Tasks : CompleteTimeout(t)

SpecAll == (Init \/ InitWin) /\ [][NextAll]_vars

\* The POSIX stream of either class (generic, Linux) under every
\* configuration of Configs: its lifecycle and its synchronous operations.
InitCtl ==
    /\ backend \in {"posix", "linux"}
    /\ cfg \in Configs
    /\ _hangup_on_close = TRUE
    /\ _fd = None
    /\ _fd2 = None
    /\ _py_serial = None
    /\ _read_buffer = 0
    /\ _send_conflict_detector = FALSE
    /\ _recv_conflict_detector = FALSE
    /\ tasks = [t \in Tasks |-> IdleFrame]
    /\ alive = TRUE
    /\ res = [f \in Fds |-> "free"]
    /\ closeCalls = [f \in Fds |-> 0]
    /\ lockedBy = None
    /\ osAttr = CookedAttr
    /\ rxAvail = 0
    /\ gone = FALSE
    /\ ret = NoRet
    /\ oscalls = <<>>

NextCtl ==
    \/ aopen
    \/ aclose
    \/ __del__
    \/ discard_input
    \/ discard_output
    \/ \E quarters \in {1, 2} : send_break(quarters)
    \/ get_cts
    \/ get_rts
    \/ \E value \in BOOLEAN : set_rts(value)
    \/ get_hangup
    \/ \E value \in BOOLEAN : set_hangup(value)

SpecCtl == InitCtl /\ [][NextCtl]_vars

\* ------------------------------------ the terminal set by another program
\* The attributes belong to the device, not to the descriptor: another
\* program that has the terminal open changes them (tcsetattr, stty) --
\* VMIN alone, or back to the cooked flags -- between two passes of
\* _reconfigure_port, which reads them at posix.py:260.
AttrsSetElsewhere ==
    /\ IsPosix /\ _fd # None
    /\ \E a \in {[osAttr EXCEPT !.vmin = 1],
                  [osAttr EXCEPT !.vmin = 1,
                                 !.lflag = @ \cup {"ICANON", "ECHO", "ISIG"},
                                 !.oflag = @ \cup {"OPOST"},
                                 !.iflag = @ \cup {"ICRNL", "INPCK", "IXANY"},
                                 !.cflag = @ \ {"CLOCAL"}]} :
          /\ a # osAttr
          /\ osAttr' = a
    /\ Quiet
    /\ UNCHANGED <<backend, _fd2, cfg, _hangup_on_close, _fd, _py_serial, _read_buffer,
                   _send_conflict_detector, _recv_conflict_detector, tasks, alive,
                   res, closeCalls, lockedBy, rxAvail, gone>>

\* The POSIX stream of SpecCtl on a terminal that other programs set too.
NextTty ==
    \/ NextCtl
    \/ AttrsSetElsewhere

SpecTty == InitCtl /\ [][NextTty]_vars

\* ---------------------------------------- a second stream on the same port
\* aopen of a second PosixSerialStream constructed with the same arguments
\* for the same port, posix.py:77-89; its _hangup_on_close is the default.
aopen2 ==
    /\ IsPosix
    /\ UNCHANGED <<backend, _fd, cfg, _hangup_on_close, _py_serial, _read_buffer,
                   _send_conflict_detector, _recv_conflict_detector, alive, gone>>
    /\ IF AlreadyOpened(_fd2)
       THEN /\ ret' = Ret("aopen(2)", "Exception(Already opened)")
            /\ Issue(<<>>)
            /\ UNCHANGED <<_fd2, tasks, osAttr>>
       ELSE /\ NextFd <= MaxOpens
            /\ \E fail \in FailPoints \cup {"os.open"} :
                 /\ gone => fail = "os.open"
                 /\ (cfg.exclusive /\ LockBusy(NextFd) /\ fail # "os.open")
                       => fail = "flock"
                 /\ IF fail = "os.open"
                    THEN /\ ret' = Ret("aopen(2)", "OSError")
                         /\ Issue(<<Call("os.open", None, <<>>)>>)
                         /\ UNCHANGED <<_fd2, tasks, osAttr>>
                    ELSE LET fd == NextFd
                             r == ReconfigurePort(backend, cfg, TRUE, fd, osAttr, TRUE, fail)
                             calls == <<Call("os.open", fd, <<>>)>> \o r.calls
                                      \o (IF r.outcome = "ok" THEN <<>> ELSE _close(fd, FALSE))
                         IN  /\ _fd2' = IF r.outcome = "ok" THEN fd ELSE None
                             /\ osAttr' = r.attr
                             /\ ret' = Ret("aopen(2)", r.outcome)
                             /\ Issue(calls)
                             /\ tasks' = TasksAfter(calls)

\* aclose of the second stream, posix.py:71-75.
aclose2 ==
    /\ IsPosix
    /\ LET calls == _close(_fd2, TRUE)
       IN  /\ _fd2' = None
           /\ Issue(calls)
           /\ tasks' = TasksAfter(calls)
    /\ ret' = Ret("aclose(2)", "ok")
    /\ UNCHANGED <<backend, _fd, cfg, _hangup_on_close, _py_serial, _read_buffer,
                   _send_conflict_detector, _recv_conflict_detector, alive, osAttr, gone>>

\* Two POSIX streams constructed with exclusive=True for one port: the
\* lifecycle of each and the synchronous operations of the first.
InitLock == InitCtl /\ cfg.exclusive

NextLock ==
    \/ NextCtl
    \/ aopen2
    \/ aclose2

SpecLock == InitLock /\ [][NextLock]_vars

\* ------------------------------------------------ every valid configuration
\* The constructor arguments _reconfigure_port accepts on class b: byte
\* size 5 to 8, every StopBits member, every Parity member the class has a
\* branch for, both flow controls on or off.
ValidConfigs(b) ==
    {c \in [exclusive : {FALSE}, baudrate : {115200}, bytesize : 5..8, parity : Parity,
            stopbits : StopBits, xonxoff : BOOLEAN, rtscts : BOOLEAN] :
        ValidParity(b, c)}

\* States tcgetattr may report on class b before the first pass: the cooked
\* terminal, every configured bit clear, every configured bit set.
PriorStates(b) ==
    {CookedAttr,
     [CookedAttr EXCEPT !.iflag = {}, !.cflag = {}],
     [CookedAttr EXCEPT !.iflag = {"IXON", "IXOFF", "IXANY", "INPCK"},
                        !.cflag = {"CSIZE0", "CSIZE1", "CSTOPB", "PARENB", "PARODD",
                                   "CRTSCTS", "HUPCL"} \cup CMSPAR(b)]}

\* The POSIX stream under every valid configuration, on a terminal found
\* in any of the prior states: aopen, set_hangup, aclose.
InitCodec ==
    /\ backend \in {"posix", "linux"}
    /\ cfg \in ValidConfigs(backend)
    /\ osAttr \in PriorStates(backend)
    /\ _hangup_on_close = TRUE
    /\ _fd = None
    /\ _fd2 = None
    /\ _py_serial = None
    /\ _read_buffer = 0
    /\ _send_conflict_detector = FALSE
    /\ _recv_conflict_detector = FALSE
    /\ tasks = [t \in Tasks |-> IdleFrame]
    /\ alive = TRUE
    /\ res = [f \in Fds |-> "free"]
    /\ closeCalls = [f \in Fds |-> 0]
    /\ lockedBy = None
    /\ rxAvail = 0
    /\ gone = FALSE
    /\ ret = NoRet
    /\ oscalls = <<>>

NextCodec ==
    \/ aopen
    \/ aclose
    \/ \E value \in BOOLEAN : set_hangup(value)

SpecCodec == InitCodec /\ [][NextCodec]_vars

\* ================================================================ claims
InFlightOps(ops) == {t \in Tasks : tasks[t].op \in ops}
Guards == <<_send_conflict_detector, _recv_conflict_detector>>

\* ---- C1
C1_AtMostOne ==
    /\ Cardinality(InFlightOps(SendOps)) <= 1
    /\ Cardinality(InFlightOps(RecvOps)) <= 1

C1_SecondRefused ==
    /\ \A t \in Tasks, data \in Datas :
          send_all(t, data) /\ (\E u \in Tasks : tasks[u].op = "send_all")
          => /\ ret'.op = "send_all" /\ ret'.outcome = "BusyResourceError"
             /\ oscalls' = <<>>
             /\ UNCHANGED <<tasks, Guards>>
    /\ \A t \in Tasks, max_bytes \in MaxBytesArgs :
          receive_some(t, max_bytes) /\ (\E u \in Tasks : tasks[u].op = "receive_some")
          => /\ ret'.op = "receive_some" /\ ret'.outcome = "BusyResourceError"
             /\ oscalls' = <<>>
             /\ UNCHANGED <<tasks, Guards>>

\* C1: no two operations of one direction are ever in flight on the stream;
\* a send_all issued while a send_all is in flight (a receive_some while a
\* receive_some is) raises BusyResourceError at entry, issues no call, and
\* leaves the frame and the guard of the operation in flight as they were,
\* so that operation goes on as if the second had not been issued.
C1_SingleOperationPerDirection == []C1_AtMostOne /\ [][C1_SecondRefused]_vars

\* A second send_all has just been refused while the first is suspended
\* half way through its data.
C1_Witness ==
    /\ ret.op = "send_all" /\ ret.outcome = "BusyResourceError"
    /\ \E u \in Tasks : /\ tasks[u].op = "send_all" /\ tasks[u].wake = "suspended"
                        /\ tasks[u].total_sent = 1

\* ---- C2
C2_SharedGuard ==
    /\ \A t \in Tasks, data \in Datas :
          send_all(t, data)
          /\ (\E u \in Tasks : tasks[u].op = "wait_send_all_might_not_block")
          => ret'.outcome = "BusyResourceError" /\ UNCHANGED <<tasks, Guards>>
    /\ \A t \in Tasks :
          wait_send_all_might_not_block(t) /\ (\E u \in Tasks : tasks[u].op = "send_all")
          => ret'.outcome = "BusyResourceError" /\ UNCHANGED <<tasks, Guards>>

OneWaitNoSend(calls) == calls = <<Adapter("_wait_writable", <<>>, 0)>>

C2_WaitOnly ==
    /\ \A t \in Tasks : tasks[t].op = "wait_send_all_might_not_block"
          => /\ OneWaitNoSend(tasks[t].calls)
             /\ tasks[t].pc = "wait_writable"
             /\ _send_conflict_detector
    /\ ret.op = "wait_send_all_might_not_block" /\ ret.outcome = "ok"
          => /\ OneWaitNoSend(ret.calls)
             /\ oscalls = <<>>

\* C2: send_all and wait_send_all_might_not_block use one guard: either,
\* issued while the other is in flight, raises BusyResourceError at entry and
\* changes nothing.  An accepted wait_send_all_might_not_block holds the send
\* guard, calls _wait_writable exactly once, and returns having called
\* neither _send nor the OS write.
C2_WaitSharesSendGuard == []C2_WaitOnly /\ [][C2_SharedGuard]_vars

\* A send_all has been refused because a wait_send_all_might_not_block is
\* in flight.
C2_Witness ==
    /\ ret.op = "send_all" /\ ret.outcome = "BusyResourceError"
    /\ \E u \in Tasks : tasks[u].op = "wait_send_all_might_not_block"

\* A wait_send_all_might_not_block has returned normally.
C2_WitnessReturned ==
    /\ ret.op = "wait_send_all_might_not_block" /\ ret.outcome = "ok"
    /\ Len(ret.calls) = 1

\* ---- C3
C3_OtherDirectionAccepted ==
    /\ \A t \in Tasks, max_bytes \in MaxBytesArgs :
          receive_some(t, max_bytes) /\ InFlightOps(SendOps) # {}
          /\ InFlightOps(RecvOps) = {}
          => /\ ret'.outcome # "BusyResourceError"
             /\ UNCHANGED _send_conflict_detector
             /\ \A u \in InFlightOps(SendOps) : tasks'[u] = tasks[u]
    /\ \A t \in Tasks, data \in Datas :
          send_all(t, data) /\ InFlightOps(RecvOps) # {} /\ InFlightOps(SendOps) = {}
          => /\ ret'.outcome # "BusyResourceError"
             /\ UNCHANGED _recv_conflict_detector
             /\ \A u \in InFlightOps(RecvOps) : tasks'[u] = tasks[u]
    /\ \A t \in Tasks :
          wait_send_all_might_not_block(t) /\ InFlightOps(RecvOps) # {}
          /\ InFlightOps(SendOps) = {}
          => /\ ret'.outcome # "BusyResourceError"
             /\ UNCHANGED _recv_conflict_detector
             /\ \A u \in InFlightOps(RecvOps) : tasks'[u] = tasks[u]

\* C3: an operation issued while only operations of the other direction are
\* in flight is not refused with BusyResourceError, and it leaves the other
\* direction's guard and frame alone.
C3_DirectionsIndependent == [][C3_OtherDirectionAccepted]_vars

\* A send_all and a receive_some are suspended at the same time, the
\* receive_some having been issued second.
C3_Witness ==
    \E u, v \in Tasks :
       /\ u < v
       /\ tasks[u].op = "send_all" /\ tasks[u].wake = "suspended"
       /\ tasks[v].op = "receive_some" /\ tasks[v].wake = "suspended"
       /\ _send_conflict_detector /\ _recv_conflict_detector

\* ---- C4
RECURSIVE SumSent(_, _)
\* Bytes the adapter reported written by the _send calls among calls[1..n].
SumSent(calls, n) ==
    IF n = 0 THEN 0
    ELSE SumSent(calls, n - 1)
         + (IF calls[n].call = "_send" /\ calls[n].ret > 0 THEN calls[n].ret ELSE 0)

RECURSIVE Accepted(_, _)
\* The bytes the adapter took, in the order it took them.
Accepted(calls, n) ==
    IF n = 0 THEN <<>>
    ELSE Accepted(calls, n - 1)
         \o (IF calls[n].call = "_send" /\ calls[n].ret > 0
             THEN SubSeq(calls[n].arg[1], 1, calls[n].ret) ELSE <<>>)

\* The calls of a send_all of non-empty data, as far as it has got.
SendTrace(data, calls) ==
    /\ \A i \in DOMAIN calls :
          /\ calls[i].call \in {"_wait_writable", "_send"}
          /\ calls[i].call = "_send"
             => /\ i > 1 /\ calls[i - 1].call = "_wait_writable"
                /\ calls[i].arg = <<SubSeq(data, SumSent(calls, i - 1) + 1, Len(data))>>
          /\ calls[i].call = "_wait_writable" /\ i > 1 => calls[i - 1].call = "_send"
    /\ SumSent(calls, Len(calls)) <= Len(data)
    /\ Accepted(calls, Len(calls)) = SubSeq(data, 1, SumSent(calls, Len(calls)))

\* C4: a send_all of non-empty data calls _wait_writable before each _send,
\* gives _send exactly data[total_sent:], adds the count _send returns to
\* total_sent, and returns normally only with total_sent = len(data), the
\* bytes taken by the adapter being data in order; a partial write is
\* followed by the next wait, and the only errors a send_all ends with are
\* the refusal at entry, cancellation, the closed stream and a failing write
\* on a device that has gone.
C4_SendAllWritesAllInOrder ==
    /\ \A t \in Tasks : tasks[t].op = "send_all" /\ Len(tasks[t].data) > 0
          => /\ SendTrace(tasks[t].data, tasks[t].calls)
             /\ tasks[t].total_sent = SumSent(tasks[t].calls, Len(tasks[t].calls))
             /\ tasks[t].total_sent < Len(tasks[t].data)
    /\ ret.op = "send_all" /\ Len(ret.data) > 0 /\ ret.outcome # "BusyResourceError"
          => /\ SendTrace(ret.data, ret.calls)
             /\ ret.outcome = "ok"
                => /\ SumSent(ret.calls, Len(ret.calls)) = Len(ret.data)
                   /\ Accepted(ret.calls, Len(ret.calls)) = ret.data
             /\ ret.outcome \in {"ok", "Cancelled", "ClosedResourceError", "OSError"}
             /\ ret.outcome = "OSError" => gone

\* A send_all of MaxLen bytes has returned after MaxLen writes of one byte.
C4_Witness ==
    /\ ret.op = "send_all" /\ ret.outcome = "ok" /\ Len(ret.data) = MaxLen
    /\ Len(ret.calls) = 2 * MaxLen

\* ---- C5
Checkpoint == Adapter("checkpoint", <<>>, 0)

C5_EmptyState ==
    /\ \A t \in Tasks : tasks[t].op = "send_all"
          => /\ _send_conflict_detector
             /\ IF Len(tasks[t].data) = 0
                THEN tasks[t].calls = <<Checkpoint>> /\ tasks[t].pc = "checkpoint"
                ELSE /\ \A i \in DOMAIN tasks[t].calls : tasks[t].calls[i] # Checkpoint
                     /\ tasks[t].pc # "checkpoint"
    /\ ret.op = "send_all" /\ ret.outcome # "BusyResourceError"
          => IF Len(ret.data) = 0
             THEN /\ ret.calls = <<Checkpoint>>
                  /\ ret.outcome \in {"ok", "Cancelled"}
                  /\ oscalls = <<>>
             ELSE \A i \in DOMAIN ret.calls : ret.calls[i] # Checkpoint

C5_EmptyStep ==
    \A t \in Tasks :
       /\ send_all(t, <<>>) /\ ~_send_conflict_detector
          => /\ tasks'[t].pc = "checkpoint" /\ tasks'[t].wake = "suspended"
             /\ _send_conflict_detector' /\ oscalls' = <<>>
       /\ (\E k \in 1..MaxLen : Resume(t, k)) /\ tasks[t].pc = "checkpoint"
          => /\ ret'.op = "send_all" /\ ret'.outcome = "ok"
             /\ ~_send_conflict_detector' /\ oscalls' = <<>>

\* C5: send_all of empty data enters the send guard, suspends in exactly
\* one checkpoint, calls neither _wait_writable nor _send (and nothing of
\* the OS), and returns when it runs again; send_all of non-empty data
\* makes no checkpoint.
C5_EmptySendCheckpointsOnce == []C5_EmptyState /\ [][C5_EmptyStep]_vars

\* A send_all of empty data has returned after its checkpoint.
C5_Witness ==
    /\ ret.op = "send_all" /\ ret.outcome = "ok" /\ ret.data = <<>>
    /\ ret.calls = <<Checkpoint>>

\* ---- C6
C6_OneRecvCall(fr) ==
    /\ Len(fr.calls) = 1
    /\ fr.calls[1].call = "_recv"
    /\ fr.calls[1].arg = <<fr.max_bytes>>

\* C6: a receive_some makes exactly one _recv call, with the max_bytes it
\* was given, and returns what that call returned; the _recv reads once, and
\* a read of zero bytes is returned as the empty value, the call ending
\* normally.
C6_ReceiveSomeReadsOnce ==
    /\ \A t \in Tasks : tasks[t].op = "receive_some" => C6_OneRecvCall(tasks[t])
    /\ ret.op = "receive_some" /\ ret.outcome # "BusyResourceError"
          => /\ C6_OneRecvCall(ret)
             /\ Cardinality(CallsNamed(oscalls, {"os.read"})) <= 1
             /\ CallsNamed(oscalls, {"os.read"}) # {}
                => /\ ret.outcome = "ok"
                   /\ ret.value = ret.calls[1].ret
                   /\ ret.value >= 0

\* A receive_some has returned the empty value from a read of zero bytes.
C6_Witness ==
    /\ ret.op = "receive_some" /\ ret.outcome = "ok" /\ ret.value = 0
    /\ CallsNamed(oscalls, {"os.read"}) # {}

\* A receive_some has returned the bytes of its one read.
C6_WitnessData ==
    /\ ret.op = "receive_some" /\ ret.outcome = "ok" /\ ret.value = MaxRx
    /\ CallsNamed(oscalls, {"os.read"}) # {}

\* ---- C7
\* C7: for every max_bytes given to receive_some the returned data has at
\* most max_bytes bytes, and the read is sized to 4096 only when max_bytes
\* was not given.
C7_AtMostMaxBytes ==
    ret.op = "receive_some" /\ ret.outcome = "ok" /\ ret.max_bytes # Unspecified
       => /\ ret.value <= ret.max_bytes
          /\ \A i \in CallsNamed(oscalls, {"os.read"}) :
                oscalls[i].arg # <<DefaultReadSize>>

\* What the code keeps of C7: the bound holds for every max_bytes >= 1, and
\* a read without max_bytes asks for 4096 bytes.
C7_AtMostPositiveMaxBytes ==
    /\ ret.op = "receive_some" /\ ret.outcome = "ok" /\ ret.max_bytes >= 1
          => /\ ret.value <= ret.max_bytes
             /\ \A i \in CallsNamed(oscalls, {"os.read"}) :
                   oscalls[i].arg = <<ret.max_bytes>>
    /\ ret.op = "receive_some" /\ ret.outcome = "ok" /\ ret.max_bytes = Unspecified
          => \A i \in CallsNamed(oscalls, {"os.read"}) :
                oscalls[i].arg = <<DefaultReadSize>>

\* receive_some(0) has returned a byte.
C7_ZeroReturnsData ==
    ret.op = "receive_some" /\ ret.outcome = "ok" /\ ret.max_bytes = 0 /\ ret.value > 0

\* ---- C8
C8_OpenStep ==
    aopen /\ _fd # None
       => /\ ret'.op = "aopen" /\ ret'.outcome = "Exception(Already opened)"
          /\ oscalls' = <<>>
          /\ UNCHANGED <<_fd, res, closeCalls, osAttr, cfg, _hangup_on_close, tasks,
                         Guards, rxAvail>>

\* C8: aopen on an open POSIX stream raises Exception("Already opened") and
\* changes nothing: _fd and the descriptor stay as they were, no descriptor
\* is acquired or released, and no OS call (open, flock, tcgetattr,
\* tcsetattr, ioctl) is issued.
C8_AopenOnOpenRefused == [][C8_OpenStep]_vars

\* An aopen has been refused on a stream that is open.
C8_Witness ==
    /\ ret.op = "aopen" /\ ret.outcome = "Exception(Already opened)"
    /\ _fd # None /\ res[_fd] = "open"

\* ---- C9
C9_OpenStepWin ==
    aopen_win /\ _py_serial # None
       => /\ ret'.op = "aopen" /\ ret'.outcome # "ok"
          /\ UNCHANGED _py_serial

\* C9: aopen on an open overlapped stream fails with an already-open error
\* and leaves the handle as it was.
C9_AopenOnOpenRefusedWin == [][C9_OpenStepWin]_vars

\* What the code keeps of C9: the handle, the resources and the frames are
\* as they were, and no OS call is issued.
C9_AopenOnOpenNoEffectWin ==
    [][aopen_win /\ _py_serial # None
          => /\ oscalls' = <<>>
             /\ UNCHANGED <<_py_serial, res, closeCalls, tasks, Guards>>]_vars

\* An aopen has returned normally on an overlapped stream that was open.
C9_ReturnsNormally ==
    /\ ~IsPosix /\ ret.op = "aopen" /\ ret.outcome = "ok" /\ oscalls = <<>>
    /\ _py_serial # None

\* ---- C10
\* The resource the stream holds, None when it is closed.
Handle == IF IsPosix THEN _fd ELSE _py_serial

C10_ReleasedOnce ==
    /\ \A f \in Fds :
          /\ closeCalls[f] <= 1
          /\ res[f] = "closed" <=> closeCalls[f] = 1
          /\ res[f] = "open" => f = Handle
    /\ ~alive => Handle = None

C10_CloseStep ==
    aclose \/ aclose_win \/ __del__
       => /\ Handle' = None
          /\ IF Handle = None
             THEN /\ ret'.outcome = "ok"
                  /\ oscalls' = <<>> /\ UNCHANGED <<res, closeCalls>>
             ELSE /\ NCloses(oscalls', Handle) = 1
                  /\ \A f \in Fds \ {Handle} : NCloses(oscalls', f) = 0

\* C10: every resource a successful open acquired is released by exactly
\* one OS close call (none is closed twice, none is left open once the
\* stream no longer holds it, none outlives the stream), and aclose or the
\* destructor's close on a closed stream issues no OS call and raises
\* nothing.
C10_CloseIdempotentReleasesOnce == []C10_ReleasedOnce /\ [][C10_CloseStep]_vars

\* An aclose on a closed stream, after an earlier open and close, has
\* returned without an OS call.
C10_Witness ==
    /\ ret.op = "aclose" /\ ret.outcome = "ok" /\ oscalls = <<>>
    /\ Handle = None
    /\ \E f \in Fds : res[f] = "closed" /\ closeCalls[f] = 1

\* ---- C11
\* Outcomes of an aopen that raised after os.open had returned a descriptor.
OpenFailures ==
    {"IOError(lock)", "OSError", "termios.error", "ValueError(char len)",
     "ValueError(stop bits)", "ValueError(parity)", "NotImplementedError",
     "ValueError(custom baud rate)"}

C11_FailStep ==
    aopen /\ _fd = None
       => /\ ret'.outcome \in OpenFailures \cup {"ok"}
          /\ ret'.outcome # "ok"
             => /\ _fd' = None
                /\ \A f \in Fds : res'[f] # "open"
                /\ \A f \in Acquired(oscalls') \ {None} :
                      /\ NCloses(oscalls', f) = 1
                      /\ oscalls'[Len(oscalls')] = Call("os.close", f, <<>>)

\* C11: a POSIX aopen that raises after it acquired the descriptor (lock,
\* byte size, stop bits, parity, tcgetattr, tcsetattr or custom-rate
\* failure) has closed that descriptor as its last OS call and leaves _fd
\* None; a closed stream holds no open descriptor, and aopen on it is never
\* refused as already opened.
C11_FailedOpenReleases ==
    /\ [](_fd = None => \A f \in Fds : res[f] # "open")
    /\ [][C11_FailStep]_vars

\* An aopen has failed in its attribute write, after the descriptor was
\* acquired, and has closed it.
C11_Witness ==
    /\ ret.op = "aopen" /\ ret.outcome = "termios.error" /\ _fd = None
    /\ \E i \in DOMAIN oscalls : oscalls[i].call = "tcsetattr"
    /\ oscalls[Len(oscalls)].call = "os.close"

\* An aopen has succeeded after an earlier one failed and released.
C11_WitnessReopened ==
    /\ ret.op = "aopen" /\ ret.outcome = "ok" /\ _fd = MaxOpens
    /\ closeCalls[1] = 1

\* ---- C12
C12_FailStepWin ==
    aopen_win /\ _py_serial = None /\ ret'.outcome # "ok"
       => /\ _py_serial' = None
          /\ \A f \in Fds : res'[f] # "open"

\* C12: an overlapped aopen that raises after serial.Serial returned the
\* handle has released the handle and leaves the stream closed.
C12_FailedOpenReleasesWin == [][C12_FailStepWin]_vars

\* An overlapped aopen has raised in register_with_iocp and the stream
\* keeps the handle, open.
C12_HandleKept ==
    /\ ~IsPosix /\ ret.op = "aopen" /\ ret.outcome = "OSError"
    /\ _py_serial # None /\ res[_py_serial] = "open"
    /\ oscalls[Len(oscalls)].call = "register_with_iocp"

\* ---- C13
Closed == "ClosedResourceError"

\* The operations that fail on a closed stream in the step that calls them.
C13_FailAtCall ==
    /\ \A t \in Tasks, max_bytes \in MaxBytesArgs :
          receive_some(t, max_bytes) /\ _fd = None /\ ~_recv_conflict_detector
          => ret'.op = "receive_some" /\ ret'.outcome = Closed
    /\ \A t \in Tasks :
          wait_send_all_might_not_block(t) /\ _fd = None /\ ~_send_conflict_detector
          => ret'.op = "wait_send_all_might_not_block" /\ ret'.outcome = Closed
    /\ \A t \in Tasks, data \in Datas \ {<<>>} :
          send_all(t, data) /\ _fd = None /\ ~_send_conflict_detector
          => ret'.op = "send_all" /\ ret'.outcome = Closed
    /\ _fd = None /\ discard_input => ret'.outcome = Closed
    /\ _fd = None /\ discard_output => ret'.outcome = Closed
    /\ _fd = None /\ (\E quarters \in {1, 2} : send_break(quarters))
          => ret'.outcome = Closed
    /\ _fd = None /\ get_cts => ret'.outcome = Closed
    /\ _fd = None /\ get_rts => ret'.outcome = Closed
    /\ _fd = None /\ (\E value \in BOOLEAN : set_rts(value)) => ret'.outcome = Closed

\* send_all of empty data, get_hangup and set_hangup on a closed stream.
C13_FailTheRest ==
    /\ \A t \in Tasks :
          (\E k \in 1..MaxLen : Resume(t, k)) /\ tasks[t].pc = "checkpoint"
          /\ (\A f \in Fds : res[f] = "free")
          => ret'.op = "send_all" /\ ret'.outcome = Closed
    /\ _fd = None /\ get_hangup => ret'.outcome = Closed
    /\ _fd = None /\ (\E value \in BOOLEAN : set_hangup(value)) => ret'.outcome = Closed

\* C13: every operation other than aopen and aclose, called on a closed
\* stream, fails with ClosedResourceError (a send_all of empty data, which
\* suspends in its checkpoint first, when it runs again on the stream that
\* was never opened).
C13_ClosedStreamRefusesAll == [][C13_FailAtCall /\ C13_FailTheRest]_vars

\* What the code keeps of C13: the operations of C13_FailAtCall.
C13_ClosedStreamRefusesMost == [][C13_FailAtCall]_vars

\* A send_all of empty data has returned normally on a stream that was
\* never opened.
C13_EmptySendOnClosedReturns ==
    /\ ret.op = "send_all" /\ ret.outcome = "ok" /\ ret.data = <<>>
    /\ \A f \in Fds : res[f] = "free"

\* get_hangup has returned normally on a closed stream.
C13_GetHangupOnClosedReturns ==
    ret.op = "get_hangup" /\ ret.outcome = "ok" /\ _fd = None

\* ---- C14
C14_ClosedStep ==
    \A value \in BOOLEAN :
       _fd = None /\ set_hangup(value)
       => /\ ret'.op = "set_hangup" /\ ret'.outcome = "ok"
          /\ oscalls' = <<>>
          /\ _hangup_on_close' = value
          /\ UNCHANGED <<_fd, osAttr, res, closeCalls, cfg>>

C14_OpenStep ==
    _fd = None /\ aopen /\ ret'.outcome = "ok"
       => /\ "HUPCL" \in osAttr'.cflag <=> _hangup_on_close
          /\ \E i \in DOMAIN oscalls' :
                /\ oscalls'[i].call = "tcsetattr"
                /\ oscalls'[i].arg = <<Encode(backend, cfg, _hangup_on_close, osAttr)>>

\* _reconfigure_port on a closed stream, for either force_update.
C14_ReconfigureClosed ==
    \A force \in BOOLEAN :
       ReconfigurePort(backend, cfg, _hangup_on_close, None, osAttr, force, "none")
          = [outcome |-> "ok", calls |-> <<>>, attr |-> osAttr]

\* C14: _reconfigure_port on a closed POSIX stream issues no call, raises
\* nothing and leaves the OS attributes alone; set_hangup on a closed stream
\* only stores its value; and a successful aopen writes the attributes
\* encoded from the configuration and the stored value, HUPCL being set in
\* the OS state exactly when the stored value is true.
C14_ClosedReconfigureIsNoOp ==
    /\ []C14_ReconfigureClosed
    /\ [][C14_ClosedStep /\ C14_OpenStep]_vars

\* The first aopen of the stream has succeeded with the hangup value false,
\* stored while the stream was closed, and HUPCL is clear.
C14_Witness ==
    /\ ret.op = "aopen" /\ ret.outcome = "ok"
    /\ _fd = 1 /\ \A f \in Fds \ {1} : res[f] = "free"
    /\ ~_hangup_on_close /\ "HUPCL" \notin osAttr.cflag

\* ---- C15
C15_CloseStep ==
    /\ _fd # None /\ aclose
       => /\ oscalls' = <<Call("notify_closing", _fd, <<>>), Call("os.close", _fd, <<>>)>>
          /\ _fd' = None
          /\ res'[_fd] = "closed"
    /\ _fd # None /\ IsPosix /\ __del__
       => /\ oscalls' = <<Call("os.close", _fd, <<>>)>>
          /\ _fd' = None
          /\ res'[_fd] = "closed"

\* C15: aclose on an open POSIX stream leaves _fd None and issues
\* notify_closing(fd) and then os.close(fd), the os.close also when
\* notify_closing raises; the destructor's close issues os.close(fd) alone.
C15_NotifyThenClose == [][C15_CloseStep]_vars

\* An aclose whose notify_closing raised has closed the descriptor.
C15_Witness ==
    /\ ret.op = "aclose" /\ ret.outcome = "Error(notify_closing)" /\ _fd = None
    /\ Len(oscalls) = 2
    /\ oscalls[1].call = "notify_closing" /\ oscalls[2].call = "os.close"
    /\ res[oscalls[2].fd] = "closed"

\* The destructor has closed an open stream without a notification.
C15_WitnessDel ==
    /\ ret.op = "__del__" /\ Len(oscalls) = 1 /\ oscalls[1].call = "os.close"

\* ---- C16
\* Task t is suspended in a wait on the stream's descriptor.
Waiting(t) ==
    /\ tasks[t].wake = "suspended"
    /\ tasks[t].pc \in {"wait_readable", "wait_writable"}
    /\ tasks[t].wfd = _fd

C16_Step ==
    \A t \in Tasks :
       \* an aclose whose notification is delivered wakes the waiting task
       /\ _fd # None /\ Waiting(t) /\ aclose /\ ret'.outcome = "ok"
          => tasks'[t] = [tasks[t] EXCEPT !.wake = "closed"]
       \* which then does nothing but raise when it runs
       /\ tasks[t].wake = "closed"
          => \/ tasks'[t] = tasks[t]
             \/ /\ ~InFlight(t)'
                /\ ret' = TaskRet(tasks[t], "ClosedResourceError", 0)
                /\ oscalls' = <<>>
                /\ UNCHANGED rxAvail

C17_HeldIffInFlight ==
    /\ _send_conflict_detector <=> InFlightOps(SendOps) # {}
    /\ _recv_conflict_detector <=> InFlightOps(RecvOps) # {}

C17_ExitStep ==
    \A t \in Tasks :
       /\ InFlight(t) /\ ~InFlight(t)'
          => /\ ret'.op = tasks[t].op
             /\ IF tasks[t].op \in SendOps THEN ~_send_conflict_detector'
                ELSE ~_recv_conflict_detector'
       /\ InFlightOps(SendOps) = {}
          /\ ((\E data \in Datas : send_all(t, data)) \/ wait_send_all_might_not_block(t))
          => ret'.outcome # "BusyResourceError"
       /\ InFlightOps(RecvOps) = {}
          /\ (\E max_bytes \in MaxBytesArgs : receive_some(t, max_bytes))
          => ret'.outcome # "BusyResourceError"

\* C17: a direction's guard is held exactly when an operation of that
\* direction is in flight; whichever way an operation leaves (return,
\* Cancelled at a suspension point, ClosedResourceError, OSError) the step
\* that ends it frees its guard, and an operation issued when none of its
\* direction is in flight is not refused.
C17_GuardReleasedOnExit == []C17_HeldIffInFlight /\ [][C17_ExitStep]_vars

\* A send_all has been cancelled after a partial write and the send guard
\* is free.
C17_Witness ==
    /\ ret.op = "send_all" /\ ret.outcome = "Cancelled"
    /\ SumSent(ret.calls, Len(ret.calls)) = 1
    /\ ~_send_conflict_detector

\* A receive_some has ended with ClosedResourceError and the receive guard
\* is free.
C17_WitnessClosed ==
    /\ ret.op = "receive_some" /\ ret.outcome = "ClosedResourceError"
    /\ ~_recv_conflict_detector

\* ---- C18
\* Calls that change what the OS holds for the terminal.
AttrWrites(calls) == CallsNamed(calls, {"tcsetattr", "ioctl(TCSETS2)"})

\* Outcomes of the OS calls aopen makes before it looks at the configuration.
EarlyFailures == {"OSError", "IOError(lock)", "termios.error"}

C18_State ==
    cfg.bytesize \notin {5, 6, 7, 8}
       => \A fail \in FailPoints \ {"flock", "tcgetattr"}, force \in BOOLEAN :
             LET r == ReconfigurePort(backend, cfg, _hangup_on_close, 1, osAttr, force, fail)
             IN  /\ r.outcome = "ValueError(char len)"
                 /\ AttrWrites(r.calls) = {}
                 /\ r.calls[Len(r.calls)].call = "tcgetattr"
                 /\ r.attr = osAttr

C18_Step ==
    _fd = None /\ cfg.bytesize \notin {5, 6, 7, 8} /\ aopen
       => /\ ret'.outcome \in {"ValueError(char len)"} \cup EarlyFailures
          /\ AttrWrites(oscalls') = {}
          /\ _fd' = None
          /\ UNCHANGED osAttr

\* C18: with a byte size outside 5..8, _reconfigure_port raises
\* ValueError("Invalid char len") once the lock and tcgetattr calls have
\* succeeded, whatever the rest of the configuration; aopen issues no
\* tcsetattr and no custom-rate write, leaves the OS attributes as they were
\* and the stream closed.
C18_BadByteSizeRejected ==
    /\ []C18_State
    /\ [][C18_Step]_vars

\* An aopen with byte size 9 has raised the byte-size error and closed.
C18_Witness ==
    /\ ret.op = "aopen" /\ ret.outcome = "ValueError(char len)" /\ cfg.bytesize = 9
    /\ _fd = None /\ oscalls[Len(oscalls)].call = "os.close"

\* ---- C19
\* The parity a cflag encodes, read back from PARENB, PARODD and CMSPAR
\* (the inverse of posix.py:327-339).
ParityOf(cflag) ==
    IF "PARENB" \notin cflag THEN "NONE"
    ELSE IF "CMSPAR" \in cflag
         THEN (IF "PARODD" \in cflag THEN "MARK" ELSE "SPACE")
         ELSE (IF "PARODD" \in cflag THEN "ODD" ELSE "EVEN")

C19_Step ==
    _fd = None /\ cfg.parity \in {"MARK", "SPACE"} /\ aopen
       => IF backend = "posix"
          THEN /\ ret'.outcome \in {"ValueError(parity)", "ValueError(char len)",
                                    "ValueError(stop bits)"} \cup EarlyFailures
               /\ AttrWrites(oscalls') = {}
               /\ _fd' = None
               /\ UNCHANGED osAttr
          ELSE /\ ret'.outcome \notin {"ValueError(parity)"}
               /\ \A i \in CallsNamed(oscalls', {"tcsetattr"}) :
                     ParityOf(oscalls'[i].arg[1].cflag) = cfg.parity
               /\ ret'.outcome = "ok" => ParityOf(osAttr'.cflag) = cfg.parity

C19_State ==
    cfg.parity \in {"MARK", "SPACE"} /\ cfg.bytesize \in {5, 6, 7, 8}
    /\ cfg.stopbits \in StopBits /\ backend = "posix"
       => \A fail \in FailPoints \ {"flock", "tcgetattr"}, force \in BOOLEAN :
             LET r == ReconfigurePort(backend, cfg, _hangup_on_close, 1, osAttr, force, fail)
             IN  /\ r.outcome = "ValueError(parity)"
                 /\ AttrWrites(r.calls) = {}
                 /\ r.attr = osAttr

\* C19: on the generic POSIX class (CMSPAR = 0) an aopen asking for MARK or
\* SPACE parity raises ValueError("Invalid parity") (byte size and stop bits
\* being valid and the earlier OS calls having succeeded), writes no
\* terminal attributes at all -- so none that encode NONE, EVEN or ODD --
\* and leaves the stream closed; on Linux the same request is not refused
\* for its parity, and what it writes encodes the parity asked for.
C19_StickParityNeedsCMSPAR == []C19_State /\ [][C19_Step]_vars

\* On the generic class an aopen with MARK parity has raised the parity
\* error and closed.
C19_Witness ==
    /\ backend = "posix" /\ cfg.parity = "MARK"
    /\ ret.op = "aopen" /\ ret.outcome = "ValueError(parity)"
    /\ _fd = None /\ oscalls[Len(oscalls)].call = "os.close"

\* On Linux an aopen with SPACE parity has succeeded.
C19_WitnessLinux ==
    /\ backend = "linux" /\ cfg.parity = "SPACE"
    /\ ret.op = "aopen" /\ ret.outcome = "ok"
    /\ ParityOf(osAttr.cflag) = "SPACE"

\* ---- C20
\* The rate has neither a termios B<rate> constant nor an entry in the
\* class's table.
NoConstant(b, rate) == rate \notin TermiosB \cup BAUDRATE_CONSTANTS(b)

C20_Step ==
    _fd = None /\ backend = "posix" /\ NoConstant(backend, cfg.baudrate) /\ aopen
       => /\ ret'.outcome # "ok"
          /\ AttrWrites(oscalls') = {}
          /\ _fd' = None
          /\ UNCHANGED osAttr

\* C20: on the generic POSIX class an aopen whose rate has no constant
\* fails, leaving the stream closed, without having issued any write of
\* terminal attributes (so none carrying a substitute rate).
C20_NoCustomRateFailsAtOnce == [][C20_Step]_vars

\* What the code keeps of C20: the aopen fails and the stream is closed.
C20_NoCustomRateFails ==
    [][_fd = None /\ backend = "posix" /\ NoConstant(backend, cfg.baudrate) /\ aopen
          => ret'.outcome # "ok" /\ _fd' = None /\ (\A f \in Fds : res'[f] # "open")]_vars

\* On the generic class an aopen with a rate that has no constant has
\* raised NotImplementedError after writing attributes whose speed is
\* B38400, and the terminal is left at 38400 baud.
C20_SubstituteWritten ==
    /\ backend = "posix" /\ NoConstant(backend, cfg.baudrate)
    /\ ret.op = "aopen" /\ ret.outcome = "NotImplementedError" /\ _fd = None
    /\ \E i \in CallsNamed(oscalls, {"tcsetattr"}) :
          oscalls[i].arg[1].ospeed = BConst(38400)
    /\ osAttr.baud = 38400 /\ osAttr.lflag = {}

\* ---- C21
\* No two streams of the port are open, and an open one holds the lock.
C21_AtMostOneOpen ==
    /\ ~(_fd # None /\ _fd2 # None)
    /\ _fd # None => lockedBy = _fd
    /\ _fd2 # None => lockedBy = _fd2

\* An aopen whose os.open succeeded while the other stream is open.
C21_Step ==
    /\ _fd # None /\ aopen2 /\ Acquired(oscalls') \ {None} # {}
          => /\ ret'.outcome = "IOError(lock)"
             /\ _fd2' = None
             /\ \A f \in Acquired(oscalls') \ {None} : res'[f] = "closed"
             /\ _fd' = _fd /\ res'[_fd] = "open" /\ lockedBy' = _fd
    /\ _fd2 # None /\ aopen /\ Acquired(oscalls') \ {None} # {}
          => /\ ret'.outcome = "IOError(lock)"
             /\ _fd' = None
             /\ \A f \in Acquired(oscalls') \ {None} : res'[f] = "closed"
             /\ _fd2' = _fd2 /\ res'[_fd2] = "open" /\ lockedBy' = _fd2

\* C21: of two POSIX streams constructed with exclusive=True for one port
\* at most one is open at any time; the aopen that finds the lock held
\* raises the lock error (IOError "Could not exclusively lock port ..."),
\* closes its own descriptor and stays closed, and the other stream stays
\* open and keeps the lock.
C21_ExclusiveOpen == []C21_AtMostOneOpen /\ [][C21_Step]_vars

\* The second stream's aopen has just been refused the lock the first holds.
C21_Witness ==
    /\ ret.op = "aopen(2)" /\ ret.outcome = "IOError(lock)"
    /\ _fd # None /\ lockedBy = _fd /\ _fd2 = None
    /\ \E f \in Fds : f # _fd /\ res[f] = "closed"

\* The first stream's aopen has just been refused the lock the second holds.
C21_WitnessFirst ==
    /\ ret.op = "aopen" /\ ret.outcome = "IOError(lock)"
    /\ _fd2 # None /\ lockedBy = _fd2 /\ _fd = None

\* ---- C22
\* Task t's overlapped read has completed with the time-out error and its
\* coroutine has not run yet.
TimedOut(t) ==
    /\ tasks[t].op = "receive_some" /\ tasks[t].pc = "readinto_overlapped"
    /\ tasks[t].wake = "timeout"

C22_Step ==
    \A t \in Tasks :
        TimedOut(t) /\ (\E k \in 1..MaxLen : Resume(t, k))
           => /\ ret' = NoRet
              /\ tasks'[t].op = "receive_some" /\ tasks'[t].pc = "readinto_overlapped"
              /\ tasks'[t].wake = "suspended"
              /\ CallsNamed(oscalls', {"readinto_overlapped"}) # {}

\* C22: in the overlapped backend a read that completes with the time-out
\* error is issued again and the task stays in receive_some; the time-out
\* is not raised to the caller.
C22_TimeoutRetried == [][C22_Step]_vars

\* receive_some has raised the OSError of a time-out completion.
C22_TimeoutRaised ==
    /\ backend = "windows"
    /\ ret.op = "receive_some" /\ ret.outcome = "OSError(timeout)"
    /\ \A t \in Tasks : ~TimedOut(t)

\* ---- C23
\* Writes handed to the OS and not yet taken by the line.
PendingOutput == {t \in Tasks : tasks[t].pc = "write_overlapped" /\ tasks[t].wake = "suspended"}

C23_Step ==
    /\ (discard_output \/ discard_output_win) /\ ret'.outcome = "ok"
          => rxAvail' = rxAvail
    /\ (discard_input \/ discard_input_win) /\ ret'.outcome = "ok"
          => rxAvail' = 0 /\ PendingOutput' = PendingOutput

\* C23: in either backend discard_output leaves the unread input as it is,
\* and discard_input discards the unread input and leaves pending output
\* as it is.
C23_DiscardsAreScoped == [][C23_Step]_vars

\* What the overlapped backend does: discard_output is discard_input --
\* the input queue is emptied and pending output is left.
C23_DiscardOutputDiscardsInputWin ==
    [][discard_output_win /\ ret'.outcome = "ok"
          => /\ rxAvail' = 0
             /\ PendingOutput' = PendingOutput
             /\ oscalls' = <<Call("reset_input_buffer", _py_serial, <<>>)>>]_vars

\* discard_output has returned on an open overlapped stream, with a write
\* still pending.
C23_OutputStillPending ==
    /\ backend = "windows" /\ ret.op = "discard_output" /\ ret.outcome = "ok"
    /\ rxAvail = 0 /\ PendingOutput # {}

\* ---- C24
\* The stream is Open: it holds a descriptor or a handle.
Open == Handle # None

\* The last step closed the stream while it was Open.
JustClosed ==
    /\ ~Open /\ ret.op \in {"aclose", "__del__"}
    /\ CallsNamed(oscalls, {"os.close", "py_serial.close"}) # {}

C24_Step ==
    /\ ~Open /\ Open' => aopen \/ aopen_win
    /\ JustClosed => ~Open'

\* C24: aopen is the only operation that takes a stream from Closed to
\* Open, and a stream that was Open and has been closed is not Open again
\* after any later operation.
C24_ClosedIsTerminal == [][C24_Step]_vars

\* What the code keeps of C24: only aopen opens, and only on a live stream.
C24_OnlyAopenOpens == [][~Open /\ Open' => (aopen \/ aopen_win) /\ alive]_vars

\* The stream is Open on a new resource, an earlier resource of it being
\* closed.
C24_Reopened ==
    /\ Open /\ ret.op = "aopen" /\ ret.outcome = "ok"
    /\ \E f \in Fds : f < Handle /\ res[f] = "closed"

\* ---- C25
\* Rates asked of the resolution: with a termios constant (9600, 38400,
\* 115200), only in the Linux table (500000), in neither (250000).
Rates == {9600, 38400, 115200, 500000, 250000}

\* The rule of the resolution order that is first to match, 1 to 4.
FirstRule(b, rate) ==
    CASE rate \in TermiosB -> 1
      [] rate \notin TermiosB /\ rate \in BAUDRATE_CONSTANTS(b) -> 2
      [] rate \notin TermiosB \cup BAUDRATE_CONSTANTS(b) /\ HasBOTHER(b) -> 3
      [] OTHER -> 4

\* What each rule gives: <<speed, custom-rate flag>>.
RuleGives(rule, rate) ==
    CASE rule = 1 -> <<BConst(rate), FALSE>>
      [] rule = 2 -> <<BConst(rate), FALSE>>
      [] rule = 3 -> <<BOTHER, TRUE>>
      [] rule = 4 -> <<BConst(38400), TRUE>>

C25_State ==
    \A b \in {"posix", "linux"}, rate \in Rates :
        ResolveBaud(b, rate) = RuleGives(FirstRule(b, rate), rate)

\* An aopen that got as far as writing the attributes: the speed written
\* and the custom-rate call are those of the first matching rule.
C25_Step ==
    _fd = None /\ aopen /\ CallsNamed(oscalls', {"tcsetattr"}) # {}
       => LET gives == RuleGives(FirstRule(backend, cfg.baudrate), cfg.baudrate)
          IN  /\ \A i \in CallsNamed(oscalls', {"tcsetattr"}) :
                    /\ oscalls'[i].arg[1].ospeed = gives[1]
                    /\ oscalls'[i].arg[1].ispeed = gives[1]
              /\ ret'.outcome = "ok"
                    => (gives[2] <=> CallsNamed(oscalls', {"ioctl(TCSETS2)"}) # {})
              /\ ~gives[2] => CallsNamed(oscalls', {"ioctl(TCGETS2)", "ioctl(TCSETS2)"}) = {}
              /\ gives[2] /\ ~HasBOTHER(backend) => ret'.outcome # "ok"

\* C25: the rate resolves by the first rule that matches, in the order
\* termios constant, table of the class, BOTHER with the custom-rate flag,
\* B38400 with the custom-rate flag, for every rate and both classes; an
\* aopen writes that speed and makes the custom-rate call iff the flag is set.
C25_BaudResolutionOrder == []C25_State /\ [][C25_Step]_vars

\* A Linux stream has opened at 500000 through its table: B500000 was
\* written and no custom-rate call was made, though BOTHER is defined.
C25_Witness ==
    /\ backend = "linux" /\ cfg.baudrate = 500000
    /\ ret.op = "aopen" /\ ret.outcome = "ok" /\ _fd # None
    /\ \E i \in CallsNamed(oscalls, {"tcsetattr"}) : oscalls[i].arg[1].ospeed = BConst(500000)
    /\ CallsNamed(oscalls, {"ioctl(TCSETS2)"}) = {}

\* ---- C26
C26_Step ==
    backend = "linux" /\ NoConstant(backend, cfg.baudrate)
    /\ (aopen \/ \E value \in BOOLEAN : set_hangup(value))
       => LET writes == CallsNamed(oscalls', {"tcsetattr"})
              customs == CallsNamed(oscalls', {"ioctl(TCSETS2)"})
          IN  /\ \A j \in customs :
                    /\ oscalls'[j].arg = <<cfg.baudrate>>
                    /\ \A i \in writes : i < j
              /\ Cardinality(customs) <= 1
              /\ aopen /\ customs # {} => writes # {}
              /\ aopen /\ ret'.outcome = "ok"
                    => customs # {} /\ osAttr'.baud = cfg.baudrate

C26_WitnessUnforced ==
    /\ backend = "linux" /\ cfg.baudrate = 250000
    /\ ret.op = "set_hangup" /\ ret.outcome = "ok" /\ _fd # None
    /\ CallsNamed(oscalls, {"tcsetattr"}) = {}
    /\ CallsNamed(oscalls, {"ioctl(TCSETS2)"}) # {}
    /\ osAttr.baud = 250000

\* ---- C27
\* A pass of _reconfigure_port on an open port that ended without error:
\* the pass of a successful aopen (forced) or of a successful set_hangup.
C27_Pass(force, hup) ==
    LET writes == CallsNamed(oscalls', {"tcsetattr"})
    IN  /\ Cardinality(writes) <= 1
        /\ writes # {} <=> (force \/ Encode(backend, cfg, hup, osAttr) # osAttr)

C27_Step ==
    /\ _fd = None /\ aopen /\ ret'.outcome = "ok" => C27_Pass(TRUE, _hangup_on_close)
    /\ \A value \in BOOLEAN :
          _fd # None /\ set_hangup(value) /\ ret'.outcome = "ok" => C27_Pass(FALSE, value)
    /\ aopen \/ (\E value \in BOOLEAN : set_hangup(value))
          => Cardinality(CallsNamed(oscalls', {"tcsetattr"})) <= 1

\* C27: a pass on an open POSIX port writes the attributes at most once,
\* and exactly when it is forced (aopen) or the attributes it computed
\* differ from those it read from the OS (set_hangup is never forced).
C27_WriteIffForcedOrChanged == [][C27_Step]_vars

\* What the code keeps of C27: the same with the attributes read taken as
\* the comparison at posix.py:379 sees them, VMIN and VTIME already 0.
C27_PassAsCompared(force, hup) ==
    LET writes == CallsNamed(oscalls', {"tcsetattr"})
    IN  /\ Cardinality(writes) <= 1
        /\ writes # {} <=> (force \/ Encode(backend, cfg, hup, osAttr) # OrigAsCompared(osAttr))

C27_WriteIffForcedOrChangedAsCompared ==
    [][/\ _fd = None /\ aopen /\ ret'.outcome = "ok"
             => C27_PassAsCompared(TRUE, _hangup_on_close)
       /\ \A value \in BOOLEAN :
             _fd # None /\ set_hangup(value) /\ ret'.outcome = "ok"
                => C27_PassAsCompared(FALSE, value)]_vars

\* set_hangup has returned without a write although the terminal has
\* VMIN = 1, which the computed attributes do not.
C27_UnwrittenDifference ==
    /\ ret.op = "set_hangup" /\ ret.outcome = "ok" /\ _fd # None
    /\ CallsNamed(oscalls, {"tcsetattr"}) = {}
    /\ osAttr.vmin = 1
    /\ Encode(backend, cfg, _hangup_on_close, osAttr) # osAttr

\* ---- C28
\* Raw, no-echo, binary mode, as C28 lists its bits.
RawMode(attr) ==
    /\ {"CLOCAL", "CREAD"} \subseteq attr.cflag
    /\ attr.lflag \cap {"ICANON", "ECHO", "ECHOE", "ECHOK", "ECHONL", "ISIG", "IEXTEN"} = {}
    /\ attr.oflag \cap {"OPOST", "ONLCR", "OCRNL"} = {}
    /\ attr.iflag \cap {"INLCR", "IGNCR", "ICRNL", "IGNBRK", "INPCK", "ISTRIP"} = {}

\* States a pass may read: each flag word empty, or with every bit the
\* pass is to clear set and the bits it is to set clear.
RawStates ==
    {[CookedAttr EXCEPT !.iflag = i, !.oflag = o, !.cflag = c, !.lflag = l] :
        i \in {{}, {"INLCR", "IGNCR", "ICRNL", "IGNBRK", "INPCK", "ISTRIP", "IXON"}},
        o \in {{}, {"OPOST", "ONLCR", "OCRNL"}},
        c \in {{}, {"CLOCAL", "CREAD", "HUPCL", "CSTOPB", "PARENB"}},
        l \in {{}, {"ICANON", "ECHO", "ECHOE", "ECHOK", "ECHONL", "ISIG", "IEXTEN"}}}

\* The attributes computed from any state read are raw; so are those a
\* successful forced pass leaves.
C28_State ==
    \A orig \in RawStates, hup \in BOOLEAN :
        /\ RawMode(Encode(backend, cfg, hup, orig))
        /\ LET r == ReconfigurePort(backend, cfg, hup, 1, orig, TRUE, "none")
           IN  r.outcome = "ok" => RawMode(r.attr)

C28_Step ==
    /\ aopen /\ ret'.outcome = "ok" => RawMode(osAttr')
    /\ \A value \in BOOLEAN :
          _fd # None /\ set_hangup(value) /\ ret'.outcome = "ok" => RawMode(osAttr')

\* C28: after every successful pass on an open POSIX port, whatever state
\* the pass read and whatever the configuration, the OS state has CLOCAL
\* and CREAD set and ICANON, ECHO, ECHOE, ECHOK, ECHONL, ISIG, IEXTEN,
\* OPOST, ONLCR, OCRNL, INLCR, IGNCR, ICRNL, IGNBRK, INPCK, ISTRIP clear.
C28_RawModeForced == []C28_State /\ [][C28_Step]_vars

\* An aopen has succeeded on the cooked terminal and left it raw.
C28_Witness ==
    /\ ret.op = "aopen" /\ ret.outcome = "ok" /\ _fd # None
    /\ RawMode(osAttr) /\ ~RawMode(CookedAttr)

\* A set_hangup pass has written the attributes and left them raw.
C28_WitnessRewritten ==
    /\ ret.op = "set_hangup" /\ ret.outcome = "ok" /\ _fd # None
    /\ _hangup_on_close
    /\ CallsNamed(oscalls, {"tcsetattr"}) # {}
    /\ RawMode(osAttr)

\* ---- C29
\* The state aopen writes on the cooked terminal, and the state a later
\* set_hangup(False) leaves.
WrittenAtOpen == ReconfigurePort(backend, cfg, TRUE, 1, CookedAttr, TRUE, "none")
AfterHangupOff == ReconfigurePort(backend, cfg, FALSE, 1, WrittenAtOpen.attr, FALSE, "none")

C29_State ==
    cfg.xonxoff /\ ~cfg.rtscts /\ WrittenAtOpen.outcome = "ok"
       => /\ AfterHangupOff.outcome = "ok"
          /\ AfterHangupOff.attr = [WrittenAtOpen.attr EXCEPT !.cflag = @ \ {"HUPCL"}]
          /\ "HUPCL" \in WrittenAtOpen.attr.cflag
          /\ {"IXON", "IXOFF"} \subseteq AfterHangupOff.attr.iflag
          /\ "CRTSCTS" \notin AfterHangupOff.attr.cflag

\* set_hangup(False) on the open stream whose terminal is as aopen wrote it.
C29_Step ==
    cfg.xonxoff /\ ~cfg.rtscts /\ _fd # None /\ osAttr = WrittenAtOpen.attr
    /\ set_hangup(FALSE) /\ ret'.outcome = "ok"
       => /\ osAttr' = [osAttr EXCEPT !.cflag = @ \ {"HUPCL"}]
          /\ "HUPCL" \in osAttr.cflag
          /\ {"IXON", "IXOFF"} \subseteq osAttr'.iflag
          /\ "CRTSCTS" \notin osAttr'.cflag
          /\ \E i \in CallsNamed(oscalls', {"tcsetattr"}) :
                TcSetAttr(oscalls'[i].arg[1]) = osAttr'

\* C29: after aopen with xonxoff and without rtscts, set_hangup(False)
\* leaves a state that differs from the one written at open only in the
\* cleared HUPCL bit: IXON and IXOFF stay set, CRTSCTS stays clear, and
\* size, parity, stop bits, speed and all other bits are as they were.
C29_HangupIsFieldScoped == []C29_State /\ [][C29_Step]_vars

\* set_hangup(False) has returned on a stream opened with xonxoff.
C29_Witness ==
    /\ cfg.xonxoff /\ ~cfg.rtscts
    /\ ret.op = "set_hangup" /\ ret.outcome = "ok" /\ _fd # None /\ ~_hangup_on_close
    /\ CallsNamed(oscalls, {"tcsetattr"}) # {}
    /\ {"IXON", "IXOFF"} \subseteq osAttr.iflag
    /\ osAttr.cflag \cap {"HUPCL", "CRTSCTS"} = {}

\* ---- C30
\* The logical flags a raw state encodes, read back bit by bit.
ByteSizeOf(cflag) ==
    CASE cflag \cap CSIZE = {} -> 5
      [] cflag \cap CSIZE = {"CSIZE0"} -> 6
      [] cflag \cap CSIZE = {"CSIZE1"} -> 7
      [] cflag \cap CSIZE = CSIZE -> 8

Decode(attr) ==
    [bytesize |-> ByteSizeOf(attr.cflag),
     parity |-> ParityOf(attr.cflag),
     stopbits |-> IF "CSTOPB" \in attr.cflag THEN "TWO" ELSE "ONE",
     xonxoff |-> {"IXON", "IXOFF"} \subseteq attr.iflag,
     rtscts |-> "CRTSCTS" \in attr.cflag,
     hangup |-> "HUPCL" \in attr.cflag]

\* The logical flags requested, ONE_POINT_FIVE taken as TWO.
Logical(c, hup) ==
    [bytesize |-> c.bytesize, parity |-> c.parity,
     stopbits |-> IF c.stopbits = "ONE" THEN "ONE" ELSE "TWO",
     xonxoff |-> c.xonxoff, rtscts |-> c.rtscts, hangup |-> hup]

\* Round trip of the stream's configuration from every prior state, and
\* the collapse of ONE_POINT_FIVE onto TWO.
C30_RoundTrip ==
    \A orig \in PriorStates(backend) \cup {osAttr}, hup \in BOOLEAN :
        /\ Decode(Encode(backend, cfg, hup, orig)) = Logical(cfg, hup)
        /\ cfg.stopbits = "ONE_POINT_FIVE"
              => Encode(backend, cfg, hup, orig)
                   = Encode(backend, [cfg EXCEPT !.stopbits = "TWO"], hup, orig)

\* Before the first call: configurations that differ in a logical flag
\* encode to different raw states.
C30_Injective ==
    ret = NoRet =>
        \A c2 \in ValidConfigs(backend), hup \in BOOLEAN, hup2 \in BOOLEAN :
            Logical(c2, hup2) # Logical(cfg, hup)
               => Encode(backend, c2, hup2, osAttr) # Encode(backend, cfg, hup, osAttr)

\* A pass that wrote: the state written and the state the OS holds decode
\* to the flags requested.
C30_Step ==
    (aopen \/ \E value \in BOOLEAN : set_hangup(value))
    /\ ret'.outcome = "ok" /\ CallsNamed(oscalls', {"tcsetattr"}) # {}
       => /\ Decode(osAttr') = Logical(cfg, _hangup_on_close')
          /\ \A i \in CallsNamed(oscalls', {"tcsetattr"}) :
                Decode(oscalls'[i].arg[1]) = Logical(cfg, _hangup_on_close')

\* C30: for every valid configuration (byte size 5 to 8, each parity the
\* class supports, each stop-bits value, both flow controls, the hangup
\* flag) and every prior raw state, the flags read back from the encoded
\* state are the requested ones, so configurations that differ in a flag
\* encode differently -- except that ONE_POINT_FIVE encodes as TWO.
C30_EncodeRoundTrips == [](C30_RoundTrip /\ C30_Injective) /\ [][C30_Step]_vars

\* An aopen has written EVEN parity, 7 bits, 1.5 stop bits and RTS/CTS,
\* and the OS state reads back as EVEN, 7, TWO, RTS/CTS, hangup.
C30_Witness ==
    /\ ret.op = "aopen" /\ ret.outcome = "ok" /\ _fd # None
    /\ cfg.parity = "EVEN" /\ cfg.bytesize = 7 /\ cfg.stopbits = "ONE_POINT_FIVE"
    /\ cfg.rtscts /\ ~cfg.xonxoff
    /\ Decode(osAttr) = Logical(cfg, TRUE)
    /\ "PARODD" \notin osAttr.cflag /\ "IXOFF" \notin osAttr.iflag
    /\ \E i \in CallsNamed(oscalls, {"tcsetattr"}) : oscalls[i].arg[1] = osAttr

\* ---- C31
\* The parity-enable, odd and stick bits of a cflag.
ParityField(cflag) == cflag \cap {"PARENB", "PARODD", "CMSPAR"}

\* The bits C31 names for each parity.
ParityFieldFor(parity) ==
    CASE parity = "NONE" -> {}
      [] parity = "EVEN" -> {"PARENB"}
      [] parity = "ODD" -> {"PARENB", "PARODD"}
      [] parity = "MARK" -> {"PARENB", "PARODD", "CMSPAR"}
      [] parity = "SPACE" -> {"PARENB", "CMSPAR"}

C31_State ==
    \A orig \in PriorStates(backend) \cup {osAttr}, hup \in BOOLEAN :
        ParityField(Encode(backend, cfg, hup, orig).cflag) = ParityFieldFor(cfg.parity)

\* A pass that wrote: the state written and the state the OS holds.
C31_Step ==
    (aopen \/ \E value \in BOOLEAN : set_hangup(value))
    /\ ret'.outcome = "ok" /\ CallsNamed(oscalls', {"tcsetattr"}) # {}
       => /\ ParityField(osAttr'.cflag) = ParityFieldFor(cfg.parity)
          /\ \A i \in CallsNamed(oscalls', {"tcsetattr"}) :
                ParityField(oscalls'[i].arg[1].cflag) = ParityFieldFor(cfg.parity)

\* C31: whatever the state read, NONE leaves PARENB, PARODD and the stick
\* bit clear; EVEN leaves PARENB alone set; ODD leaves PARENB and PARODD
\* set, stick clear; with stick parity (Linux) MARK leaves all three set
\* and SPACE leaves PARENB and stick set, PARODD clear.
C31_ParityEncoding == []C31_State /\ [][C31_Step]_vars

\* A Linux stream has opened with ODD parity and the stick bit is clear.
C31_Witness ==
    /\ backend = "linux" /\ cfg.parity = "ODD"
    /\ ret.op = "aopen" /\ ret.outcome = "ok" /\ _fd # None
    /\ ParityField(osAttr.cflag) = {"PARENB", "PARODD"}
    /\ CallsNamed(oscalls, {"tcsetattr"}) # {}

\* A Linux stream has opened with SPACE parity.
C31_WitnessSpace ==
    /\ backend = "linux" /\ cfg.parity = "SPACE"
    /\ ret.op = "aopen" /\ ret.outcome = "ok" /\ _fd # None
    /\ ParityField(osAttr.cflag) = {"PARENB", "CMSPAR"}

\* ---- C32
\* A pass that wrote, and the state the OS holds after it.
C32_Pass ==
    /\ aopen \/ \E value \in BOOLEAN : set_hangup(value)
    /\ ret'.outcome = "ok" /\ CallsNamed(oscalls', {"tcsetattr"}) # {}

C32_Step ==
    C32_Pass
       => /\ IF cfg.xonxoff THEN {"IXON", "IXOFF"} \subseteq osAttr'.iflag
                            ELSE osAttr'.iflag \cap {"IXON", "IXOFF"} = {}
          /\ "IXANY" \notin osAttr'.iflag

\* C32: after a pass IXON and IXOFF are both set when xonxoff is true and
\* both clear when it is false, and IXANY is clear for either value of
\* xonxoff, whatever the state read.
C32_SoftwareFlowControl == [][C32_Step]_vars

\* What the code keeps of C32: IXON and IXOFF go together, and IXANY is
\* clear when xonxoff is false; when it is true IXANY is as it was read.
C32_IxanyAsRead ==
    [][C32_Pass
          => /\ IF cfg.xonxoff THEN {"IXON", "IXOFF"} \subseteq osAttr'.iflag
                               ELSE osAttr'.iflag \cap {"IXON", "IXOFF", "IXANY"} = {}
             /\ cfg.xonxoff => ("IXANY" \in osAttr'.iflag <=> "IXANY" \in osAttr.iflag)]_vars

\* A stream has opened with xonxoff and the terminal still has IXANY set.
C32_IxanyLeftSet ==
    /\ cfg.xonxoff /\ ret.op = "aopen" /\ ret.outcome = "ok" /\ _fd # None
    /\ {"IXON", "IXOFF", "IXANY"} \subseteq osAttr.iflag
    /\ \E i \in CallsNamed(oscalls, {"tcsetattr"}) : "IXANY" \in oscalls[i].arg[1].iflag

\* ---- C33
\* The size a receive requests, as C33 has it: max_bytes, or 4096 when
\* max_bytes is not given.
Requested(max_bytes) == IF max_bytes = Unspecified THEN DefaultReadSize ELSE max_bytes

\* A receive of the overlapped stream that got past the guard, the size
\* that goes with max_bytes being `size`; any other step; a read that
\* returns.
C33_Sized(size) ==
    /\ \A t \in Tasks, max_bytes \in MaxBytesArgs :
          ~IsPosix /\ receive_some(t, max_bytes) /\ ret'.outcome # "BusyResourceError"
             => /\ _read_buffer' = size[max_bytes]
                /\ CallsNamed(oscalls', {"bytearray"}) # {} <=> size[max_bytes] # _read_buffer
    /\ _read_buffer' # _read_buffer
          => \E t \in Tasks, max_bytes \in MaxBytesArgs : receive_some(t, max_bytes)
    /\ \A t \in Tasks :
          ~IsPosix /\ tasks[t].pc = "readinto_overlapped" /\ tasks[t].wake = "ok"
          /\ (\E k \in 1..MaxLen : Resume(t, k))
             => /\ ret'.outcome = "ok"
                /\ ret'.value = tasks[t].n /\ ret'.value <= _read_buffer
                /\ UNCHANGED _read_buffer

C33_Step == C33_Sized([max_bytes \in MaxBytesArgs |-> Requested(max_bytes)])

\* C33: in the overlapped backend the buffer kept has the length requested
\* (max_bytes, or 4096 when unspecified) after every receive; it is
\* replaced only by a receive whose size differs from its length, so equal
\* sizes reuse it; the data returned is the first bytes_read bytes of it.
C33_BufferSizedToRequest == [][C33_Step]_vars

\* What the code keeps of C33: the same with the size `max_bytes or 4096`,
\* which is 4096 for max_bytes = 0 as well.
C33_BufferSizedToReadSize ==
    [][C33_Sized([max_bytes \in MaxBytesArgs |-> ReadSize(max_bytes)])]_vars

\* receive_some(0) is in flight on the overlapped stream with a buffer of
\* 4096 bytes.
C33_ZeroGetsDefaultBuffer ==
    /\ backend = "windows" /\ _read_buffer = DefaultReadSize
    /\ \E t \in Tasks :
          /\ tasks[t].op = "receive_some" /\ tasks[t].max_bytes = 0
          /\ tasks[t].pc = "readinto_overlapped"
    /\ CallsNamed(oscalls, {"bytearray"}) # {}

\* A receive of the same size as the one before has reused the buffer.
C33_Reused ==
    /\ backend = "windows" /\ _read_buffer = 1
    /\ \E t \in Tasks :
          /\ tasks[t].op = "receive_some" /\ tasks[t].max_bytes = 1
          /\ tasks[t].pc = "readinto_overlapped" /\ tasks[t].wake = "suspended"
    /\ CallsNamed(oscalls, {"readinto_overlapped"}) # {}
    /\ CallsNamed(oscalls, {"bytearray"}) = {}

\* ---- C34
\* Task t calls an operation of the send direction, of the receive direction.
SendAttempt(t) ==
    (\E data \in Datas : send_all(t, data)) \/ wait_send_all_might_not_block(t)
RecvAttempt(t) == \E max_bytes \in MaxBytesArgs : receive_some(t, max_bytes)

C34_Step ==
    /\ \A t \in Tasks :
          /\ _send_conflict_detector /\ SendAttempt(t)
                => /\ ret'.outcome = "BusyResourceError"
                   /\ _send_conflict_detector' /\ UNCHANGED <<tasks, Guards>>
          /\ _recv_conflict_detector /\ RecvAttempt(t)
                => /\ ret'.outcome = "BusyResourceError"
                   /\ _recv_conflict_detector' /\ UNCHANGED <<tasks, Guards>>
    /\ _send_conflict_detector /\ ~_send_conflict_detector'
          => \E u \in InFlightOps(SendOps) :
                ~InFlight(u)' /\ ret'.op = tasks[u].op /\ ret'.outcome # "BusyResourceError"
    /\ _recv_conflict_detector /\ ~_recv_conflict_detector'
          => \E u \in InFlightOps(RecvOps) :
                ~InFlight(u)' /\ ret'.op = tasks[u].op /\ ret'.outcome # "BusyResourceError"

\* C34: an attempt refused with BusyResourceError leaves the guard held and
\* the operation in flight as they were; as long as the guard is held every
\* attempt of that direction is refused, and the guard goes free only in
\* the step in which the operation holding it exits.
C34_RefusalKeepsGuard == [][C34_Step]_vars

\* A receive_some has just been refused; the first is still in flight and
\* the receive guard is still held.
C34_Witness ==
    /\ ret.op = "receive_some" /\ ret.outcome = "BusyResourceError"
    /\ _recv_conflict_detector
    /\ \E u \in Tasks : tasks[u].op = "receive_some" /\ tasks[u].wake = "suspended"

\* A wait_send_all_might_not_block has just been refused while a send_all
\* holds the send guard.
C34_WitnessWait ==
    /\ ret.op = "wait_send_all_might_not_block" /\ ret.outcome = "BusyResourceError"
    /\ _send_conflict_detector
    /\ \E u \in Tasks : tasks[u].op = "send_all" /\ InFlight(u)

\* ---- C35
\* The i-th call of a step is made on a descriptor that is open when it is
\* made: open before the step or opened earlier in it, and not yet passed to
\* os.close in it.
OnOpenDescriptor(calls, i) ==
    LET f == calls[i].fd
    IN  /\ f # None
        /\ \/ res[f] = "open"
           \/ \E j \in 1..(i - 1) : calls[j].call = "os.open" /\ calls[j].fd = f
        /\ \A j \in 1..(i - 1) : ~(calls[j].call = "os.close" /\ calls[j].fd = f)

C35_NoCallOnClosed ==
    IsPosix => \A i \in DOMAIN oscalls' :
                  oscalls'[i].call # "os.open" => OnOpenDescriptor(oscalls', i)

\* A task that runs again while the stream is Closed.
ResumedOnClosed(t) ==
    /\ _fd = None /\ tasks[t].wake \notin {"none", "suspended"}
    /\ \E k \in 1..MaxLen : Resume(t, k)

C35_Step ==
    /\ C35_NoCallOnClosed
    /\ IsPosix => \A t \in Tasks :
                     ResumedOnClosed(t) => ret'.outcome = "ClosedResourceError"

\* C35: on the POSIX stream no call is issued on a descriptor that was
\* passed to os.close, and every operation that resumes while the stream is
\* Closed fails with ClosedResourceError.
C35_NoUseAfterClose == [][C35_Step]_vars

\* The part that holds: no call on a closed descriptor, and a resumed
\* operation that still has an OS call to make (the read of receive_some,
\* the write of send_all) reads self.fd and fails when the stream is Closed.
C35_CallersSeeClosed ==
    [][/\ C35_NoCallOnClosed
       /\ IsPosix => \A t \in Tasks :
             /\ ResumedOnClosed(t)
             /\ \/ tasks[t].pc = "wait_readable"
                \/ tasks[t].pc = "wait_writable" /\ tasks[t].op = "send_all"
                \/ tasks[t].wake = "closed"
             => ret'.outcome = "ClosedResourceError" /\ oscalls' = <<>>]_vars

\* wait_send_all_might_not_block has returned normally on a Closed stream.
C35_WaitReturnsOnClosed ==
    /\ IsPosix /\ _fd = None
    /\ ret.op = "wait_send_all_might_not_block" /\ ret.outcome = "ok"

\* A task made runnable before the close runs after a close and a reopen:
\* its write goes to the descriptor opened last.
C35_WriteAfterReopen ==
    /\ IsPosix /\ _fd # None /\ \E f \in Fds : res[f] = "closed"
    /\ ret.op = "send_all"
    /\ \E i \in DOMAIN oscalls : oscalls[i].call = "os.write" /\ oscalls[i].fd = _fd

\* ---- C36
\* Entries an operation's log may reach before a send that writes nothing
\* is no longer followed.
MaxCalls == 4

\* The adapter's _send returns 0 ("Number of bytes actually written",
\* abstract.py:303-313, sets no lower limit): abstract.py:231-232 add 0 to
\* total_sent and the loop goes round again.
SendsNone(t) ==
    /\ tasks[t].wake = "ok" /\ tasks[t].pc = "wait_writable"
    /\ tasks[t].op = "send_all"
    /\ Len(tasks[t].calls) < MaxCalls
    /\ Apply(t, "send", FALSE, ResumeStep(tasks[t], 0))
    /\ UNCHANGED <<backend, _fd2, cfg, _hangup_on_close, _fd, _py_serial, _read_buffer, alive,
                   res, closeCalls, lockedBy, osAttr, rxAvail, gone>>

NextSend == Next \/ \E t \in Tasks : SendsNone(t)

\* The POSIX stream over an adapter whose _send may return 0, under trio's
\* scheduler, which runs every task it has rescheduled.
SpecSend ==
    Init /\ [][NextSend]_vars /\ \A t \in Tasks : WF_vars(\E k \in 1..MaxLen : Resume(t, k))

\* Passes through the loop body that reached _send; those where it
\* returned 0.
Iterations(calls) == Cardinality(CallsNamed(calls, {"_send"}))
ZeroReturns(calls) == {i \in CallsNamed(calls, {"_send"}) : calls[i].ret = 0}

C36_Bounds(data, total_sent, calls) ==
    /\ 0 <= total_sent /\ total_sent <= Len(data)
    /\ ZeroReturns(calls) = {} => Iterations(calls) <= Len(data)

C36_State ==
    /\ \A t \in Tasks :
          tasks[t].op = "send_all"
             => C36_Bounds(tasks[t].data, tasks[t].total_sent, tasks[t].calls)
    /\ ret.op = "send_all" /\ ret.outcome # "BusyResourceError"
          => /\ ZeroReturns(ret.calls) = {} => Iterations(ret.calls) <= Len(ret.data)
             /\ ret.outcome = "ok" => SumSent(ret.calls, Len(ret.calls)) = Len(ret.data)

\* A _send that returns 0 leaves the call where it was before the wait:
\* same offset, waiting for writability again, nothing sent.
C36_Step ==
    \A t \in Tasks :
       SendsNone(t) /\ _fd # None /\ ~gone
          => /\ tasks'[t].total_sent = tasks[t].total_sent
             /\ tasks'[t].pc = "wait_writable" /\ tasks'[t].wake = "suspended"
             /\ tasks'[t].total_sent < Len(tasks'[t].data)
             /\ ret' = NoRet

\* Every wait for writability returns; no _send has returned 0.
WaitsReturn == \A t \in Tasks : []<>(tasks[t].wake # "suspended")
SendsProgress == [](\A t \in Tasks : ZeroReturns(tasks[t].calls) = {})

\* C36: in send_all 0 <= total_sent <= len(data) always (the adapter
\* returning at most the length of its slice); when every _send returns at
\* least 1 the loop body runs at most len(data) times and, every wait
\* returning, send_all ends; a _send that returns 0 leaves the loop where it
\* was, so it can go round without end.
C36_SendAllTerminates ==
    /\ []C36_State
    /\ [][C36_Step]_vars
    /\ (WaitsReturn /\ SendsProgress)
          => \A t \in Tasks : (tasks[t].op = "send_all") ~> (tasks[t].op # "send_all")

\* send_all is still in its loop after more passes than data has bytes:
\* _send returned 0.
C36_Witness ==
    \E t \in Tasks :
       /\ tasks[t].op = "send_all" /\ tasks[t].wake = "suspended"
       /\ Iterations(tasks[t].calls) > Len(tasks[t].data)
       /\ tasks[t].total_sent < Len(tasks[t].data)

\* send_all of MaxLen bytes has returned after MaxLen passes of one byte.
C36_WitnessBound ==
    /\ ret.op = "send_all" /\ ret.outcome = "ok" /\ Len(ret.data) = MaxLen
    /\ ZeroReturns(ret.calls) = {} /\ Iterations(ret.calls) = MaxLen

\* ---- C37
\* The hangup-on-close bit in force in the terminal.
HupclInForce == "HUPCL" \in osAttr.cflag

\* set_hangup(value) on the open stream has raised.
SetHangupFails(value) == _fd # None /\ set_hangup(value) /\ ret'.outcome # "ok"

C37_Step ==
    \A value \in BOOLEAN :
       SetHangupFails(value)
          => /\ UNCHANGED _hangup_on_close
             /\ _hangup_on_close' <=> HupclInForce'

\* C37: a set_hangup on the open POSIX stream whose pass raises leaves the
\* stored hangup-on-close value as it was, equal to the HUPCL bit in force.
C37_FailedSetHangupKeepsValue == [][C37_Step]_vars

\* What the code does: the value is stored whether the pass raises or not
\* (posix.py:205 runs first), the bit in force changes only if tcsetattr
\* was reached and succeeded, and get_hangup returns the stored value.
C37_ValueStoredFirst ==
    [][/\ \A value \in BOOLEAN :
            /\ set_hangup(value) => _hangup_on_close' = value
            /\ SetHangupFails(value) /\ AttrWrites(oscalls') = {}
                  => UNCHANGED osAttr
            /\ SetHangupFails(value) /\ ret'.outcome = "termios.error"
                  => UNCHANGED osAttr
       /\ get_hangup => ret'.value = (IF _hangup_on_close THEN 1 ELSE 0)]_vars

\* A failed set_hangup(False) on a stream opened with the bit set: False is
\* stored, HUPCL is still in force.
C37_StoredValueNotInForce ==
    /\ _fd # None /\ ret.op = "set_hangup" /\ ret.outcome # "ok"
    /\ ~_hangup_on_close /\ HupclInForce

\* ---- C38
\* VMIN and VTIME of the terminal are both 0.
NonBlockingReads(attr) == attr.vmin = 0 /\ attr.vtime = 0

\* A pass of _reconfigure_port on the open port has ended without error.
SuccessfulPass ==
    \/ _fd = None /\ aopen /\ ret'.outcome = "ok"
    \/ \E value \in BOOLEAN : _fd # None /\ set_hangup(value) /\ ret'.outcome = "ok"

\* C38: after every successful pass on an open POSIX port, forced or not,
\* the terminal has VMIN = 0 and VTIME = 0.
C38_PassLeavesVminVtimeZero == [][SuccessfulPass => NonBlockingReads(osAttr')]_vars

\* What the code keeps of C38: a pass that writes (every forced pass, and a
\* non-forced one that sees another difference) leaves both at 0; a pass
\* that does not write leaves them as it read them.
C38_ZeroWhenWritten ==
    [][SuccessfulPass
          => /\ _fd = None => CallsNamed(oscalls', {"tcsetattr"}) # {}
             /\ IF CallsNamed(oscalls', {"tcsetattr"}) # {}
                THEN NonBlockingReads(osAttr')
                ELSE osAttr'.vmin = osAttr.vmin /\ osAttr'.vtime = osAttr.vtime]_vars

\* set_hangup has returned from a pass whose state read differed from the
\* target in VMIN alone: no write was issued and VMIN is still 1.
C38_VminLeftSet ==
    /\ ret.op = "set_hangup" /\ ret.outcome = "ok" /\ _fd # None
    /\ osAttr.vmin = 1
    /\ Encode(backend, cfg, _hangup_on_close, osAttr) = OrigAsCompared(osAttr)
    /\ AttrWrites(oscalls) = {}

====
